---- MODULE Spec2Model ----
(***************************************************************************)
(* The interpreter and execution-trace builder of PythonCodeVisualizer     *)
(* (src/src/App.jsx, first component, lines 3-1320).                       *)
(*                                                                         *)
(* Source text is represented by its lines; a line is its indentation and  *)
(* the statement written on it, an expression is its syntax tree.  What    *)
(* the code decides by looking at the text (String.includes, RegExp.match, *)
(* startsWith) is modelled by predicates over the rendered text of these   *)
(* trees.  JavaScript values are tagged records; arrays live in a heap of  *)
(* addressed objects so that sharing between the live environment, the     *)
(* closures and the trace is visible.                                      *)
(***************************************************************************)
EXTENDS Integers, Sequences, FiniteSets, TLC

----------------------------------------------------------------------------
(* Bounds of the model *)

\* largest integer literal written in a generated program
MaxLit == 3
\* largest number of lines of a generated straight-line program
MaxLines == 3
\* largest index of a line whose breakpoint is toggled
MaxBreakLine == 1
\* how many times the same text is parsed
MaxBuilds == 2

----------------------------------------------------------------------------
(* JavaScript values *)

Num(n) == [t |-> "num", n |-> n]
Str(s) == [t |-> "str", s |-> s]
Bool(b) == [t |-> "bool", b |-> b]
Null == [t |-> "null"]
\* NaN, the result of arithmetic on operands that are not numbers
NaN == [t |-> "nan"]
\* a reference to the array stored at address a of the heap
Ref(a) == [t |-> "ref", a |-> a]
\* an array that an expression has just built and nobody references yet
Fresh(items) == [t |-> "fresh", items |-> items]
\* the function object built by a def header
Func(name, params, body, closure) ==
  [t |-> "fn", name |-> name, params |-> params, body |-> body, closure |-> closure]

\* the object JSON.parse builds for a dict literal: its keys in order, each
\* with its value
Dict(entries) == [t |-> "dict", entries |-> entries]

IsNum(v) == v.t = "num"
IsStr(v) == v.t = "str"
IsRef(v) == v.t = "ref"
IsFresh(v) == v.t = "fresh"
IsFunc(v) == v.t = "fn"
IsArray(v) == v.t \in {"ref", "fresh"}
IsDict(v) == v.t = "dict"

\* the empty object {}
EmptyEnv == [n \in {} |-> Null]
Bound(vars, name) == name \in DOMAIN vars
\* vars[name] = value
Bind(vars, name, value) == (name :> value) @@ vars

\* the elements of an array value
Items(v, heap) == IF IsRef(v) THEN heap[v.a] ELSE v.items

----------------------------------------------------------------------------
(* Source text: expressions *)

ENum(n) == [e |-> "num", n |-> n]
EStr(s) == [e |-> "str", s |-> s]
EName(id) == [e |-> "name", id |-> id]
ELit(w) == [e |-> "lit", w |-> w]            \* True, False, None
EBin(op, l, r) == [e |-> "bin", op |-> op, l |-> l, r |-> r]
EList(items) == [e |-> "list", items |-> items]
ECall(f, args) == [e |-> "call", f |-> f, args |-> args]
\* a piece of text that is not an expression of the language
ERaw(text) == [e |-> "raw", text |-> text]
\* {"key": expr, ..}: pairs is the sequence of [k |-> key, v |-> expr]
EDict(pairs) == [e |-> "dict", pairs |-> pairs]
\* [expr for var in iter]  and  [expr for var in iter if cond]
EComp(expr, var, iter) ==
  [e |-> "comp", expr |-> expr, var |-> var, iter |-> iter, hasCond |-> FALSE]
ECompIf(expr, var, iter, cond) ==
  [e |-> "comp", expr |-> expr, var |-> var, iter |-> iter, hasCond |-> TRUE, cond |-> cond]

RECURSIVE Render(_)
RECURSIVE RenderAll(_, _)
RECURSIVE RenderPairs(_)
\* the texts of es joined by sep
RenderAll(es, sep) ==
  IF es = <<>> THEN ""
  ELSE IF Len(es) = 1 THEN Render(es[1])
  ELSE Render(es[1]) \o sep \o RenderAll(Tail(es), sep)
\* the text of the pairs of a dict literal
RenderPairs(pairs) ==
  IF pairs = <<>> THEN ""
  ELSE "\"" \o pairs[1].k \o "\": " \o Render(pairs[1].v)
       \o (IF Len(pairs) = 1 THEN "" ELSE ", " \o RenderPairs(Tail(pairs)))
\* the text of an expression as it stands in the source line
Render(x) ==
  CASE x.e = "num" -> ToString(x.n)
    [] x.e = "str" -> "\"" \o x.s \o "\""
    [] x.e = "name" -> x.id
    [] x.e = "lit" -> x.w
    [] x.e = "bin" -> Render(x.l) \o " " \o x.op \o " " \o Render(x.r)
    [] x.e = "list" -> "[" \o RenderAll(x.items, ", ") \o "]"
    [] x.e = "call" -> x.f \o "(" \o RenderAll(x.args, ", ") \o ")"
    [] x.e = "raw" -> x.text
    [] x.e = "dict" ->
         "{" \o RenderPairs(x.pairs) \o "}"
    [] x.e = "comp" ->
         "[" \o Render(x.expr) \o " for " \o x.var \o " in " \o Render(x.iter)
         \o (IF x.hasCond THEN " if " \o Render(x.cond) ELSE "") \o "]"

----------------------------------------------------------------------------
(* String primitives of the host language *)

\* String.prototype.includes
Includes(s, sub) ==
  \E i \in 1..(Len(s) - Len(sub) + 1) : SubSeq(s, i, i + Len(sub) - 1) = sub
\* String.prototype.startsWith
StartsWith(s, p) == Len(s) >= Len(p) /\ SubSeq(s, 1, Len(p)) = p
\* String.prototype.endsWith
EndsWith(s, p) == Len(s) >= Len(p) /\ SubSeq(s, Len(s) - Len(p) + 1, Len(s)) = p

RECURSIVE Join(_, _)
\* Array.prototype.join on an array of strings
Join(strs, sep) ==
  IF strs = <<>> THEN ""
  ELSE IF Len(strs) = 1 THEN strs[1]
  ELSE strs[1] \o sep \o Join(Tail(strs), sep)

\* the typeof operator
TypeOf(v) ==
  CASE v.t \in {"num", "nan", "float", "inf"} -> "number"
    [] v.t = "undefined" -> "undefined"
    [] v.t = "str" -> "string"
    [] v.t = "bool" -> "boolean"
    [] OTHER -> "object"

----------------------------------------------------------------------------
(* helperFunctions *)

RECURSIVE __repr(_, _)
__repr(value, heap) ==
  CASE value.t = "null" -> "None"
    [] value.t = "bool" -> IF value.b THEN "True" ELSE "False"
    [] value.t = "str" -> "'" \o value.s \o "'"
    [] value.t = "num" -> ToString(value.n)
    [] value.t = "nan" -> "NaN"
    [] value.t = "float" -> "<float>"
    [] value.t = "inf" -> "Infinity"
    [] value.t = "undefined" -> "undefined"
    [] IsArray(value) ->
         LET items == Items(value, heap)
         IN "[" \o Join([k \in 1..Len(items) |-> __repr(items[k], heap)], ", ") \o "]"
    [] value.t = "fn" -> "{\"name\":\"" \o value.name \o "\",...}"
    [] value.t = "dict" ->
         "{" \o Join([k \in 1..Len(value.entries) |->
                        "\"" \o value.entries[k].k \o "\":"
                        \o (IF value.entries[k].v.t = "str"
                            THEN "\"" \o value.entries[k].v.s \o "\""
                            ELSE IF value.entries[k].v.t = "num"
                            THEN ToString(value.entries[k].v.n)
                            ELSE "null")], ",") \o "}"

RECURSIVE RangeLoop(_, _, _, _)
\* for (let i = start; step > 0 ? i < stop : i > stop; i += step) result.push(i)
RangeLoop(i, stop, step, result) ==
  IF (IF step > 0 THEN i < stop ELSE i > stop)
  THEN RangeLoop(i + step, stop, step, Append(result, Num(i)))
  ELSE result

\* with a step of 0 the loop variable never moves, so the loop that is
\* entered (start > stop) is never left
RangeNeverReturns(args) == Len(args) = 3 /\ args[3] = 0 /\ args[1] > args[2]

\* a range whose loop ignores the sign of the step
__rangeUpwardsOnly(args) ==
  CASE Len(args) = 1 ->
         [i \in 1..(IF args[1] > 0 THEN args[1] ELSE 0) |-> Num(i - 1)]
    [] Len(args) = 2 ->
         [i \in 1..(IF args[2] - args[1] > 0 THEN args[2] - args[1] ELSE 0) |->
            Num(i - 1 + args[1])]
    [] Len(args) = 3 -> RangeLoop(args[1], args[2], IF args[3] > 0 THEN args[3] ELSE 1, <<>>)
    [] OTHER -> <<>>

\* __range on numeric arguments
__range(args) ==
  CASE Len(args) = 1 ->
         [i \in 1..(IF args[1] > 0 THEN args[1] ELSE 0) |-> Num(i - 1)]
    [] Len(args) = 2 ->
         [i \in 1..(IF args[2] - args[1] > 0 THEN args[2] - args[1] ELSE 0) |->
            Num(i - 1 + args[1])]
    [] Len(args) = 3 -> RangeLoop(args[1], args[2], args[3], <<>>)
    [] OTHER -> <<>>

\* the number of own keys of a function object: name, params, body, closure,
\* isFunction
FuncKeys == 5

\* __len: the result, or the thrown message
__len(obj, heap) ==
  IF IsArray(obj) THEN [ok |-> TRUE, v |-> Num(Len(Items(obj, heap)))]
  ELSE IF IsStr(obj) THEN [ok |-> TRUE, v |-> Num(Len(obj.s))]
  ELSE IF IsDict(obj) THEN [ok |-> TRUE, v |-> Num(Len(obj.entries))]
  ELSE IF TypeOf(obj) = "object" /\ obj # Null THEN [ok |-> TRUE, v |-> Num(FuncKeys)]
  ELSE [ok |-> FALSE, err |-> "object of type '" \o TypeOf(obj) \o "' has no len()"]

----------------------------------------------------------------------------
(* safeEval: the rewriting of the expression text *)

\* an operand that the pattern (\d+|\w+) matches as a whole
SimpleOperand(x) == x.e \in {"num", "name", "lit"}

RECURSIVE Rewrite(_)
\* the chain of String.replace calls: the host expression that
\* "new Function" is given
Rewrite(x) ==
  CASE x.e = "lit" ->
         [x EXCEPT !.w = CASE x.w = "True" -> "true"
                           [] x.w = "False" -> "false"
                           [] x.w = "None" -> "null"
                           [] OTHER -> x.w]
    [] x.e = "call" ->
         [x EXCEPT !.f = CASE x.f = "print" -> "__print"
                           [] x.f = "range" -> "__range"
                           [] x.f = "len" -> "__len"
                           [] OTHER -> x.f,
                   !.args = [k \in 1..Len(x.args) |-> Rewrite(x.args[k])]]
    [] x.e = "bin" ->
         IF x.op = "//"
         THEN \* "//" is replaced by the text "Math.floor"
              [e |-> "bin", op |-> "Math.floor", l |-> Rewrite(x.l), r |-> Rewrite(x.r)]
         ELSE IF x.op = "**" /\ SimpleOperand(x.l) /\ SimpleOperand(x.r)
         THEN ECall("Math.pow", <<Rewrite(x.l), Rewrite(x.r)>>)
         ELSE [x EXCEPT !.l = Rewrite(x.l), !.r = Rewrite(x.r)]
    [] x.e = "list" -> [x EXCEPT !.items = [k \in 1..Len(x.items) |-> Rewrite(x.items[k])]]
    [] x.e = "comp" ->
         IF x.hasCond
         THEN [x EXCEPT !.expr = Rewrite(x.expr), !.iter = Rewrite(x.iter),
                        !.cond = Rewrite(x.cond)]
         ELSE [x EXCEPT !.expr = Rewrite(x.expr), !.iter = Rewrite(x.iter)]
    [] OTHER -> x

\* the binary operators of the host language
JsOps == {"+", "-", "*", "/", "%", "**", "==", "!=", "<=", ">=", "<", ">"}

RECURSIVE JsSyntaxOK(_)
\* whether "new Function" accepts the rewritten expression
JsSyntaxOK(x) ==
  CASE x.e = "bin" -> x.op \in JsOps /\ JsSyntaxOK(x.l) /\ JsSyntaxOK(x.r)
    [] x.e = "list" -> \A k \in 1..Len(x.items) : JsSyntaxOK(x.items[k])
    [] x.e = "call" -> \A k \in 1..Len(x.args) : JsSyntaxOK(x.args[k])
    [] x.e \in {"comp", "raw"} -> FALSE
    [] OTHER -> TRUE

----------------------------------------------------------------------------
(* safeEval: the evaluation of the rewritten expression *)

\* ToNumber on the values the model holds; NaN for everything that has no
\* integer value
IsNumeric(v) == v.t \in {"num", "bool", "null"}
ToNumber(v) ==
  CASE v.t = "num" -> v.n
    [] v.t = "bool" -> IF v.b THEN 1 ELSE 0
    [] v.t = "null" -> 0

RECURSIVE ToJsString(_, _)
\* ToString of the host language
ToJsString(v, heap) ==
  CASE v.t = "num" -> ToString(v.n)
    [] v.t = "str" -> v.s
    [] v.t = "bool" -> IF v.b THEN "true" ELSE "false"
    [] v.t = "null" -> "null"
    [] v.t = "nan" -> "NaN"
    [] v.t = "float" -> "<float>"
    [] v.t = "inf" -> "Infinity"
    [] v.t = "undefined" -> "undefined"
    [] IsArray(v) ->
         LET items == Items(v, heap)
         IN Join([k \in 1..Len(items) |->
                    IF items[k] = Null THEN "" ELSE ToJsString(items[k], heap)], ",")
    [] v.t = "fn" -> "[object Object]"

Abs(n) == IF n < 0 THEN -n ELSE n

RECURSIVE Pow(_, _)
\* Math.pow and ** for a non-negative integer exponent
Pow(a, b) == IF b <= 0 THEN 1 ELSE a * Pow(a, b - 1)

\* a number that is not an integer: its value is outside the model
Float == [t |-> "float"]
\* Infinity and -Infinity
Infinity == [t |-> "inf"]

\* the binary operators on two values
JsBinary(op, a, b, heap) ==
  CASE op = "+" ->
         IF IsNumeric(a) /\ IsNumeric(b) THEN Num(ToNumber(a) + ToNumber(b))
         ELSE IF a.t \in {"str", "ref", "fresh", "fn"} \/ b.t \in {"str", "ref", "fresh", "fn"}
         THEN Str(ToJsString(a, heap) \o ToJsString(b, heap))
         ELSE NaN
    [] op = "-" ->
         IF IsNumeric(a) /\ IsNumeric(b) THEN Num(ToNumber(a) - ToNumber(b)) ELSE NaN
    [] op = "*" ->
         IF IsNumeric(a) /\ IsNumeric(b) THEN Num(ToNumber(a) * ToNumber(b)) ELSE NaN
    [] op = "%" ->
         IF IsNumeric(a) /\ IsNumeric(b) /\ ToNumber(b) # 0
         THEN LET m == Abs(ToNumber(a)) % Abs(ToNumber(b))
              IN Num(IF ToNumber(a) < 0 THEN -m ELSE m)
         ELSE NaN
    [] op = "/" ->
         IF IsNumeric(a) /\ IsNumeric(b)
         THEN IF ToNumber(b) = 0 THEN (IF ToNumber(a) = 0 THEN NaN ELSE Infinity)
              ELSE IF Abs(ToNumber(a)) % Abs(ToNumber(b)) = 0
              THEN LET q == Abs(ToNumber(a)) \div Abs(ToNumber(b))
                   IN Num(IF (ToNumber(a) < 0) = (ToNumber(b) < 0) THEN q ELSE -q)
              ELSE Float
         ELSE NaN
    [] op = "**" ->
         IF IsNumeric(a) /\ IsNumeric(b)
         THEN IF ToNumber(b) >= 0 THEN Num(Pow(ToNumber(a), ToNumber(b)))
              ELSE IF ToNumber(a) = 1 THEN Num(1) ELSE Float
         ELSE NaN
    [] op = "==" ->
         IF IsNumeric(a) /\ IsNumeric(b) /\ a.t # "null" /\ b.t # "null"
         THEN Bool(ToNumber(a) = ToNumber(b))
         ELSE Bool(a.t = b.t /\ a.t \in {"str", "null", "ref"} /\ a = b)
    [] op = "!=" ->
         IF IsNumeric(a) /\ IsNumeric(b) /\ a.t # "null" /\ b.t # "null"
         THEN Bool(ToNumber(a) # ToNumber(b))
         ELSE Bool(~(a.t = b.t /\ a.t \in {"str", "null", "ref"} /\ a = b))
    [] op = "<" -> Bool(IsNumeric(a) /\ IsNumeric(b) /\ ToNumber(a) < ToNumber(b))
    [] op = ">" -> Bool(IsNumeric(a) /\ IsNumeric(b) /\ ToNumber(a) > ToNumber(b))
    [] op = "<=" -> Bool(IsNumeric(a) /\ IsNumeric(b) /\ ToNumber(a) <= ToNumber(b))
    [] op = ">=" -> Bool(IsNumeric(a) /\ IsNumeric(b) /\ ToNumber(a) >= ToNumber(b))

Ok(v) == [ok |-> TRUE, v |-> v]
Throw(msg) == [ok |-> FALSE, err |-> msg]
\* the outcome of an evaluation that runs for ever: it is handed on like an
\* exception, and the line it belongs to is never left (LineHangs)
NeverReturns == [ok |-> FALSE, err |-> "", never |-> TRUE]

RECURSIVE JsEval(_, _, _)
RECURSIVE JsEvalAll(_, _, _)
\* the values of the expressions xs, or the first exception
JsEvalAll(xs, vars, heap) ==
  IF xs = <<>> THEN Ok(<<>>)
  ELSE LET first == JsEval(xs[1], vars, heap)
       IN IF ~first.ok THEN first
          ELSE LET rest == JsEvalAll(Tail(xs), vars, heap)
               IN IF ~rest.ok THEN rest ELSE Ok(<<first.v>> \o rest.v)
\* func(...Object.values(allVariables)): the value of the host expression
\* with the variables and the helpers in scope, or the exception it throws
JsEval(x, vars, heap) ==
  CASE x.e = "num" -> Ok(Num(x.n))
    [] x.e = "str" -> Ok(Str(x.s))
    [] x.e = "lit" ->
         IF x.w = "true" THEN Ok(Bool(TRUE))
         ELSE IF x.w = "false" THEN Ok(Bool(FALSE))
         ELSE Ok(Null)
    [] x.e = "name" ->
         IF Bound(vars, x.id) THEN Ok(vars[x.id])
         ELSE Throw(x.id \o " is not defined")
    [] x.e = "bin" ->
         LET a == JsEval(x.l, vars, heap)
         IN IF ~a.ok THEN a
            ELSE LET b == JsEval(x.r, vars, heap)
                 IN IF ~b.ok THEN b ELSE Ok(JsBinary(x.op, a.v, b.v, heap))
    [] x.e = "list" ->
         LET items == JsEvalAll(x.items, vars, heap)
         IN IF ~items.ok THEN items ELSE Ok(Fresh(items.v))
    [] x.e = "call" ->
         IF x.f \in {"__range", "__len", "Math.pow"}
         THEN LET args == JsEvalAll(x.args, vars, heap)
              IN IF ~args.ok THEN args
                 ELSE CASE x.f = "__range" ->
                             IF RangeNeverReturns([k \in 1..Len(args.v) |-> ToNumber(args.v[k])])
                             THEN NeverReturns
                             ELSE Ok(Fresh(__range([k \in 1..Len(args.v) |->
                                                      ToNumber(args.v[k])])))
                        [] x.f = "__len" -> __len(args.v[1], heap)
                        [] x.f = "Math.pow" -> Ok(JsBinary("**", args.v[1], args.v[2], heap))
         ELSE IF Bound(vars, x.f)
         THEN \* a function object of the interpreter is not callable
              LET args == JsEvalAll(x.args, vars, heap)
              IN IF ~args.ok THEN args ELSE Throw(x.f \o " is not a function")
         ELSE Throw(x.f \o " is not defined")

\* safeEval(expression, variables)
safeEval(expression, variables, heap) ==
  LET Run(jsExpression) ==
        IF JsSyntaxOK(jsExpression) THEN JsEval(jsExpression, variables, heap)
        ELSE Throw("Unexpected identifier")
      Catch(result) ==
        IF result.ok THEN result
        ELSE Throw("Error evaluating: " \o Render(expression) \o " - " \o result.err)
  IN Catch(Run(Rewrite(expression)))

\* whether the evaluation of the expression reaches, before any exception,
\* a call that never returns
Hangs(expression, variables, heap) ==
  LET Stuck(result) == ~result.ok /\ "never" \in DOMAIN result
  IN /\ JsSyntaxOK(Rewrite(expression))
     /\ Stuck(JsEval(Rewrite(expression), variables, heap))

----------------------------------------------------------------------------
(* Source text: statements and lines *)

SBlank == [k |-> "blank"]
SComment(text) == [k |-> "comment", text |-> text]
SAssign(name, e) == [k |-> "assign", name |-> name, e |-> e]
SAug(name, op, e) == [k |-> "aug", name |-> name, op |-> op, e |-> e]
SListOp(name, op, args) == [k |-> "listop", name |-> name, op |-> op, args |-> args]
SPrint(args) == [k |-> "print", args |-> args]
SDef(name, params) == [k |-> "def", name |-> name, params |-> params]
SCall(name, args) == [k |-> "call", name |-> name, args |-> args]
SFor(var, e) == [k |-> "for", var |-> var, e |-> e]
SIf(e) == [k |-> "if", e |-> e]
SWhile(e) == [k |-> "while", e |-> e]
SReturn(e) == [k |-> "return", e |-> e]
SOther(text) == [k |-> "other", text |-> text]

\* the text of a statement: the line without its indentation
RenderStmt(s) ==
  CASE s.k = "blank" -> ""
    [] s.k = "comment" -> "# " \o s.text
    [] s.k = "assign" -> s.name \o " = " \o Render(s.e)
    [] s.k = "aug" -> s.name \o " " \o s.op \o "= " \o Render(s.e)
    [] s.k = "listop" -> s.name \o "." \o s.op \o "(" \o RenderAll(s.args, ", ") \o ")"
    [] s.k = "print" -> "print(" \o RenderAll(s.args, ", ") \o ")"
    [] s.k = "def" -> "def " \o s.name \o "(" \o Join(s.params, ", ") \o "):"
    [] s.k = "call" -> s.name \o "(" \o RenderAll(s.args, ", ") \o ")"
    [] s.k = "for" -> "for " \o s.var \o " in " \o Render(s.e) \o ":"
    [] s.k = "if" -> "if " \o Render(s.e) \o ":"
    [] s.k = "while" -> "while " \o Render(s.e) \o ":"
    [] s.k = "return" -> "return " \o Render(s.e)
    [] s.k = "other" -> s.text

\* a source line as the user typed it: indentation width and statement
SrcLine(indent, stmt) == [indent |-> indent, stmt |-> stmt]

\* codeString.split('\n').map(...): the Line Segmenter
Segment(src) ==
  [k \in 1..Len(src) |->
     [originalIndex |-> k - 1,
      trimmed |-> RenderStmt(src[k].stmt),
      indent |-> src[k].indent,
      stmt |-> src[k].stmt]]

\* trimmed === '' || trimmed.startsWith('#')
IsSkipped(lineData) == lineData.trimmed = "" \/ StartsWith(lineData.trimmed, "#")

----------------------------------------------------------------------------
(* Snapshots: JSON.parse(JSON.stringify(vars)) *)

Undefined == [t |-> "undefined"]

\* JSON of an array element or a property value that is not an object
JsonScalar(v) == IF v.t \in {"nan", "inf", "undefined"} THEN Null ELSE v

RECURSIVE JsonValue(_, _)
RECURSIVE JsonProps(_, _, _, _)
\* the copy of one value: arrays and function objects are rebuilt
JsonValue(v, heap) ==
  IF IsRef(v)
  THEN [v |-> Ref(Len(heap) + 1),
        heap |-> Append(heap, [k \in 1..Len(heap[v.a]) |-> JsonScalar(heap[v.a][k])])]
  ELSE IF IsFunc(v)
  THEN LET c == JsonProps(DOMAIN v.closure, v.closure, heap, EmptyEnv)
       IN [v |-> [v EXCEPT !.closure = c.variables], heap |-> c.heap]
  ELSE [v |-> JsonScalar(v), heap |-> heap]
\* the copies of the properties named in names, added to acc
JsonProps(names, vars, heap, acc) ==
  IF names = {} THEN [variables |-> acc, heap |-> heap]
  ELSE LET n == CHOOSE m \in names : TRUE
           c == JsonValue(vars[n], heap)
       IN IF vars[n] = Undefined
          THEN JsonProps(names \ {n}, vars, heap, acc)
          ELSE JsonProps(names \ {n}, vars, c.heap, Bind(acc, n, c.v))

\* a copy that keeps the arrays of the environment: { ...vars }
ShallowCopy(vars, heap) == [variables |-> vars, heap |-> heap]

\* JSON.parse(JSON.stringify(vars)): a deep copy of the environment
DeepCopy(vars, heap) == JsonProps(DOMAIN vars, vars, heap, EmptyEnv)

----------------------------------------------------------------------------
(* parseListComprehension *)

\* the truthiness of a value
Truthy(v) ==
  CASE v.t = "num" -> v.n # 0
    [] v.t = "str" -> v.s # ""
    [] v.t = "bool" -> v.b
    [] v.t \in {"null", "nan", "undefined"} -> FALSE
    [] OTHER -> TRUE

\* the elements a for...of loop visits: array elements or characters
Elements(v, heap) ==
  IF IsStr(v) THEN [k \in 1..Len(v.s) |-> Str(SubSeq(v.s, k, k))] ELSE Items(v, heap)

\* a value that is an array or a string
IsIterable(v) == IsArray(v) \/ IsStr(v)

RECURSIVE CompLoop(_, _, _, _, _)
\* the loop over the items: the collected values, or the first exception
CompLoop(items, comp, variables, heap, result) ==
  IF items = <<>> THEN Ok(Fresh(result))
  ELSE LET tempVars == Bind(variables, comp.var, items[1])
           Push(value) ==
             IF ~value.ok THEN value
             ELSE CompLoop(Tail(items), comp, variables, heap, Append(result, value.v))
           Filter(conditionResult) ==
             IF ~conditionResult.ok THEN conditionResult
             ELSE IF ~Truthy(conditionResult.v)
             THEN CompLoop(Tail(items), comp, variables, heap, result)
             ELSE Push(safeEval(comp.expr, tempVars, heap))
       IN Filter(IF comp.hasCond THEN safeEval(comp.cond, tempVars, heap)
                 ELSE Ok(Bool(TRUE)))

\* parseListComprehension(expression, variables) for an expression in which
\* the pattern finds the comprehension comp.  The lazy groups of the pattern
\* end the iterable and the condition at the first "]" of their text.
parseListComprehension(comp, variables, heap) ==
  LET cut == Includes(Render(comp.iter), "]")
             \/ (comp.hasCond /\ Includes(Render(comp.cond), "]"))
      Loop(iterableValue) ==
        IF ~iterableValue.ok THEN iterableValue
        ELSE IF ~IsIterable(iterableValue.v)
        THEN Throw("'" \o TypeOf(iterableValue.v) \o "' object is not iterable")
        ELSE CompLoop(Elements(iterableValue.v, heap), comp, variables, heap, <<>>)
      Catch(result) ==
        IF result.ok THEN result ELSE Throw("List comprehension error: " \o result.err)
  IN Catch(Loop(IF cut THEN Throw("Error evaluating: " \o Render(comp.iter)
                                  \o " - Unexpected end of input")
                ELSE safeEval(comp.iter, variables, heap)))

----------------------------------------------------------------------------
(* handleFunctionCall *)

\* for (i < func.params.length) if (i < args.length) functionScope[params[i]] = args[i]
RECURSIVE BindParams(_, _, _, _)
BindParams(scope, params, args, i) ==
  IF i > Len(params) THEN scope
  ELSE BindParams(IF i <= Len(args) THEN Bind(scope, params[i], args[i]) ELSE scope,
                  params, args, i + 1)

\* handleFunctionCall with the scope built from the caller's variables
\* instead of the closure
handleFunctionCallInCallerScope(funcName, args, variables, output, heap) ==
  IF ~(Bound(variables, funcName) /\ IsFunc(variables[funcName]))
  THEN Throw("'" \o funcName \o "' is not defined or not a function")
  ELSE LET func == variables[funcName]
           functionScope == BindParams(variables, func.params, args, 1)
           functionOutput == <<>>
           Return(returnValue) ==
             IF returnValue.ok
             THEN [ok |-> TRUE, v |-> returnValue.v, output |-> output \o functionOutput]
             ELSE Throw("Error in function '" \o funcName \o "': " \o returnValue.err)
       IN IF func.body = <<>>
          THEN [ok |-> TRUE, v |-> Null, output |-> output \o functionOutput]
          ELSE IF StartsWith(func.body[1].trimmed, "return ")
          THEN Return(safeEval(func.body[1].stmt.e, functionScope, heap))
          ELSE Throw("Error in function '" \o funcName \o "': lines is not defined")

\* handleFunctionCall that passes over the body lines it cannot run and
\* returns the value of the first return line
handleFunctionCallSkippingLines(funcName, args, variables, output, heap) ==
  IF ~(Bound(variables, funcName) /\ IsFunc(variables[funcName]))
  THEN Throw("'" \o funcName \o "' is not defined or not a function")
  ELSE LET func == variables[funcName]
           functionScope == BindParams(func.closure, func.params, args, 1)
           returns == SelectSeq(func.body, LAMBDA l : StartsWith(l.trimmed, "return "))
           Return(returnValue) ==
             IF returnValue.ok
             THEN [ok |-> TRUE, v |-> returnValue.v, output |-> output]
             ELSE Throw("Error in function '" \o funcName \o "': " \o returnValue.err)
       IN IF returns = <<>>
          THEN [ok |-> TRUE, v |-> Null, output |-> output]
          ELSE Return(safeEval(returns[1].stmt.e, functionScope, heap))

\* handleFunctionCall(funcName, args, variables, output): the return value and
\* the caller's output, or the exception.  The body loop ends at the first
\* line: a line that starts with "return " evaluates its expression and
\* breaks; for any other line the call of processLine names the identifier
\* "lines", which is not in scope of handleFunctionCall, so a ReferenceError
\* is thrown before processLine runs and is rethrown by the catch clause.
handleFunctionCall(funcName, args, variables, output, heap) ==
  IF ~(Bound(variables, funcName) /\ IsFunc(variables[funcName]))
  THEN Throw("'" \o funcName \o "' is not defined or not a function")
  ELSE LET func == variables[funcName]
           functionScope == BindParams(func.closure, func.params, args, 1)
           functionOutput == <<>>
           Return(returnValue) ==
             IF returnValue.ok
             THEN [ok |-> TRUE, v |-> returnValue.v, output |-> output \o functionOutput]
             ELSE Throw("Error in function '" \o funcName \o "': " \o returnValue.err)
       IN IF func.body = <<>>
          THEN [ok |-> TRUE, v |-> Null, output |-> output \o functionOutput]
          ELSE IF StartsWith(func.body[1].trimmed, "return ")
          THEN Return(safeEval(func.body[1].stmt.e, functionScope, heap))
          ELSE Throw("Error in function '" \o funcName \o "': lines is not defined")

----------------------------------------------------------------------------
(* processLine: the right-hand side of an assignment *)

\* an array that has just been built becomes an object of the heap
Store(v, heap) ==
  IF IsFresh(v) THEN [v |-> Ref(Len(heap) + 1), heap |-> Append(heap, v.items)]
  ELSE [v |-> v, heap |-> heap]

RECURSIVE FindComp(_)
RECURSIVE FindCompIn(_)
\* the first comprehension among the expressions xs, or <<>>
FindCompIn(xs) ==
  IF xs = <<>> THEN <<>>
  ELSE IF FindComp(xs[1]) # <<>> THEN FindComp(xs[1]) ELSE FindCompIn(Tail(xs))
\* what /\[(.*?)\s+for\s+(\w+)\s+in\s+(.*?)(?:\s+if\s+(.*?))?\]/ finds in the
\* text of x: the first comprehension as a one-element sequence, or <<>>
FindComp(x) ==
  CASE x.e = "comp" -> <<x>>
    [] x.e = "bin" -> FindCompIn(<<x.l, x.r>>)
    [] x.e = "list" -> FindCompIn(x.items)
    [] x.e = "call" -> FindCompIn(x.args)
    [] OTHER -> <<>>

RECURSIVE FindCall(_)
RECURSIVE FindCallIn(_)
FindCallIn(xs) ==
  IF xs = <<>> THEN <<>>
  ELSE IF FindCall(xs[1]) # <<>> THEN FindCall(xs[1]) ELSE FindCallIn(Tail(xs))
\* what /(\w+)\((.*)\)/ finds in the text of x: the leftmost call as a
\* one-element sequence, or <<>>
FindCall(x) ==
  CASE x.e = "call" -> <<x>>
    [] x.e = "bin" -> FindCallIn(<<x.l, x.r>>)
    [] x.e = "list" -> FindCallIn(x.items)
    [] x.e = "comp" ->
         FindCallIn(<<x.expr, x.iter>> \o (IF x.hasCond THEN <<x.cond>> ELSE <<>>))
    [] OTHER -> <<>>

RECURSIVE EvalArgs(_, _, _)
\* argParts.map(arg => safeEval(arg, vars))
EvalArgs(argParts, vars, heap) ==
  IF argParts = <<>> THEN Ok(<<>>)
  ELSE LET Rest(first) ==
             IF ~first.ok THEN first
             ELSE LET rest == EvalArgs(Tail(argParts), vars, heap)
                  IN IF ~rest.ok THEN rest ELSE Ok(<<first.v>> \o rest.v)
       IN Rest(safeEval(argParts[1], vars, heap))

RECURSIVE JsonParses(_)
\* whether JSON.parse accepts the text of x with ' replaced by "
JsonParses(x) ==
  CASE x.e \in {"num", "str"} -> TRUE
    [] x.e = "list" -> \A k \in 1..Len(x.items) : JsonParses(x.items[k])
    [] OTHER -> FALSE

\* the value JSON.parse builds for a list of numbers and strings
JsonParse(x) ==
  Fresh([k \in 1..Len(x.items) |->
           IF x.items[k].e = "num" THEN Num(x.items[k].n) ELSE Str(x.items[k].s)])

\* the catch clause of the plain-expression case: what the text is taken for
\* when safeEval has failed
Fallback(expression) ==
  CASE expression.e = "num" -> Num(expression.n)
    [] expression.e = "lit" /\ expression.w = "True" -> Bool(TRUE)
    [] expression.e = "lit" /\ expression.w = "False" -> Bool(FALSE)
    [] expression.e = "lit" /\ expression.w = "None" -> Null
    [] expression.e = "str" -> Str(expression.s)
    [] OTHER -> Str(Render(expression))

\* whether JSON.parse accepts the text of a dict literal
DictParses(x) ==
  /\ x.e = "dict"
  /\ \A k \in 1..Len(x.pairs) : x.pairs[k].v.e \in {"num", "str"}

\* the object JSON.parse builds for a dict literal of numbers and strings
DictParse(x) ==
  Dict([k \in 1..Len(x.pairs) |->
          [k |-> x.pairs[k].k,
           v |-> IF x.pairs[k].v.e = "num" THEN Num(x.pairs[k].v.n)
                 ELSE Str(x.pairs[k].v.s)]])

\* the value of the right-hand side and the output after it, or the
\* exception that leaves the try block
AssignValue(expression, vars, out, heap) ==
  LET text == Render(expression)
      Comprehension(r) ==
        IF r.ok THEN [ok |-> TRUE, v |-> r.v, output |-> out]
        ELSE Throw("List comprehension error: " \o r.err)
      Returned(r) == IF r.ok THEN r ELSE Throw("Function call error: " \o r.err)
      Called(call, args) ==
        IF ~args.ok THEN args
        ELSE Returned(handleFunctionCall(call.f, args.v, vars, out, heap))
      TextOr(r) == [ok |-> TRUE, v |-> IF r.ok THEN r.v ELSE Str(text), output |-> out]
      LiteralOr(r) ==
        [ok |-> TRUE, v |-> IF r.ok THEN r.v ELSE Fallback(expression), output |-> out]
  IN IF FindComp(expression) # <<>>
     THEN Comprehension(parseListComprehension(FindComp(expression)[1], vars, heap))
     ELSE IF FindCall(expression) # <<>>
     THEN LET call == FindCall(expression)[1]
          IN IF Bound(vars, call.f) /\ IsFunc(vars[call.f])
             THEN Called(call, EvalArgs(call.args, vars, heap))
             ELSE TextOr(safeEval(expression, vars, heap))
     ELSE IF StartsWith(text, "[") /\ EndsWith(text, "]")
     THEN IF JsonParses(expression)
          THEN [ok |-> TRUE, v |-> JsonParse(expression), output |-> out]
          ELSE TextOr(safeEval(expression, vars, heap))
     ELSE IF StartsWith(text, "{") /\ EndsWith(text, "}")
     THEN IF DictParses(expression)
          THEN [ok |-> TRUE, v |-> DictParse(expression), output |-> out]
          ELSE TextOr(safeEval(expression, vars, heap))
     ELSE LiteralOr(safeEval(expression, vars, heap))

----------------------------------------------------------------------------
(* processLine: classification of a line by its text *)

NotAssignOps == {"==", "!=", "<=", ">=", "+=", "-=", "*=", "/=", "%="}
ListMethods == {"append", "extend", "remove", "pop", "insert", "index", "count"}

\* trimmed.includes('=') && ![...].some(op => trimmed.includes(op))
IsAssignment(lineData) ==
  /\ Includes(lineData.trimmed, "=")
  /\ ~\E op \in NotAssignOps : Includes(lineData.trimmed, op)

\* the position of the first "=" of a text that has one
FirstEq(text) ==
  CHOOSE i \in 1..Len(text) :
    /\ SubSeq(text, i, i) = "="
    /\ \A j \in 1..(i - 1) : SubSeq(text, j, j) # "="

RECURSIVE Trim(_)
\* String.prototype.trim for blanks
Trim(text) ==
  IF text # "" /\ Head(text) = " " THEN Trim(Tail(text))
  ELSE IF text # "" /\ SubSeq(text, Len(text), Len(text)) = " "
  THEN Trim(SubSeq(text, 1, Len(text) - 1))
  ELSE text

\* parts[0].trim() of trimmed.split('=')
AssignTarget(lineData) ==
  Trim(SubSeq(lineData.trimmed, 1, FirstEq(lineData.trimmed) - 1))

\* parts.slice(1).join('=').trim(): the expression the text after the first
\* "=" stands for
AssignExpression(lineData) ==
  IF lineData.stmt.k = "assign" /\ ~Includes(lineData.stmt.name, "=")
  THEN lineData.stmt.e
  ELSE ERaw(Trim(SubSeq(lineData.trimmed, FirstEq(lineData.trimmed) + 1,
                        Len(lineData.trimmed))))

\* trimmed.match(/[\w]+\s*[\+\-\*\/%]=\s*.+/)
IsAugmented(lineData) ==
  /\ lineData.stmt.k = "aug"
  /\ Includes(lineData.trimmed, lineData.stmt.op \o "=")

\* trimmed.match(/\w+\.(append|extend|remove|pop|insert|index|count)\(/)
IsListOperation(lineData) ==
  /\ lineData.stmt.k = "listop"
  /\ \E m \in ListMethods : Includes(lineData.trimmed, "." \o m \o "(")

IsPrint(lineData) == StartsWith(lineData.trimmed, "print(")
IsDef(lineData) == StartsWith(lineData.trimmed, "def ")
\* trimmed.match(/^\w+\(.*\)$/) && !trimmed.startsWith('print(')
IsStandaloneCall(lineData) ==
  /\ lineData.stmt.k = "call"
  /\ EndsWith(lineData.trimmed, ")")
  /\ ~StartsWith(lineData.trimmed, "print(")
IsFor(lineData) == StartsWith(lineData.trimmed, "for ")
IsIf(lineData) == StartsWith(lineData.trimmed, "if ")
IsWhile(lineData) == StartsWith(lineData.trimmed, "while ")
\* trimmed.length > 0 && !trimmed.endsWith(':')
IsOther(lineData) == Len(lineData.trimmed) > 0 /\ ~EndsWith(lineData.trimmed, ":")

\* the branch of the if/else-if chain that a line takes
Classify(lineData) ==
  CASE IsAssignment(lineData) -> "assignment"
    [] ~IsAssignment(lineData) /\ IsAugmented(lineData) -> "augmented"
    [] OTHER ->
         IF IsListOperation(lineData) THEN "list"
         ELSE IF IsPrint(lineData) THEN "print"
         ELSE IF IsDef(lineData) THEN "def"
         ELSE IF IsStandaloneCall(lineData) THEN "call"
         ELSE IF IsFor(lineData) THEN "for"
         ELSE IF IsIf(lineData) THEN "if"
         ELSE IF IsWhile(lineData) THEN "while"
         ELSE IF IsOther(lineData) THEN "other"
         ELSE "none"

----------------------------------------------------------------------------
(* processLine: the branches *)

\* what a branch of the try block hands on: the steps it pushed and the
\* local vars, out and heap after it
Done(steps, vars, out, heap) ==
  [ok |-> TRUE, steps |-> steps, variables |-> vars, output |-> out, heap |-> heap]

\* vars[name], undefined for a name that is not bound
Lookup(vars, name) == IF Bound(vars, name) THEN vars[name] ELSE Undefined

\* if (trimmed.includes('=') && ...): plain assignment
AssignmentBranch(lineData, vars, out, heap) ==
  LET varName == AssignTarget(lineData)
      expression == AssignExpression(lineData)
      oldValue == Lookup(vars, varName)
      Record(r, st, snap) ==
        Done(<<[line |-> lineData.originalIndex,
                action |-> IF oldValue # Undefined THEN "reassign" ELSE "assign",
                variable |-> varName,
                value |-> st.v,
                oldValue |-> oldValue,
                expression |-> Render(expression),
                variables |-> snap.variables,
                output |-> r.output]>>,
             Bind(vars, varName, st.v), r.output, snap.heap)
      Snapshot(r, st) == Record(r, st, DeepCopy(Bind(vars, varName, st.v), st.heap))
      Assign(r) == IF ~r.ok THEN r ELSE Snapshot(r, Store(r.v, heap))
  IN Assign(AssignValue(expression, vars, out, heap))

\* typeof oldValue === 'string' || typeof rightValue === 'string' decides
\* between String(a) + String(b) and a + b
AugmentedValue(operator, oldValue, rightValue, heap) ==
  IF operator = "+" /\ (IsStr(oldValue) \/ IsStr(rightValue))
  THEN Str(ToJsString(oldValue, heap) \o ToJsString(rightValue, heap))
  ELSE JsBinary(operator, oldValue, rightValue, heap)

\* else if (trimmed.match(/[\w]+\s*[\+\-\*\/%]=\s*.+/)): augmented assignment
AugmentedBranch(lineData, vars, out, heap) ==
  LET varName == lineData.stmt.name
      operator == lineData.stmt.op
      oldValue == Lookup(vars, varName)
      Record(rightValue, newValue, snap) ==
        Done(<<[line |-> lineData.originalIndex,
                action |-> "augmented_assign",
                variable |-> varName,
                operator |-> operator,
                value |-> newValue,
                oldValue |-> oldValue,
                rightValue |-> rightValue,
                variables |-> snap.variables,
                output |-> out]>>,
             Bind(vars, varName, newValue), out, snap.heap)
      Assign(rightValue, newValue) ==
        Record(rightValue, newValue, DeepCopy(Bind(vars, varName, newValue), heap))
      Apply(rightValue) ==
        Assign(rightValue, AugmentedValue(operator, oldValue, rightValue, heap))
      Right(r) == Apply(IF r.ok THEN r.v ELSE Str(Render(lineData.stmt.e)))
  IN Right(safeEval(lineData.stmt.e, vars, heap))

\* === on the values an array holds
StrictEq(a, b) == a = b /\ a.t \in {"num", "str", "bool", "null", "ref", "undefined"}

\* Array.prototype.indexOf, 1-based; 0 when the value is absent
IndexOf(items, value) ==
  IF \E k \in 1..Len(items) : StrictEq(items[k], value)
  THEN CHOOSE k \in 1..Len(items) :
         /\ StrictEq(items[k], value)
         /\ \A j \in 1..(k - 1) : ~StrictEq(items[j], value)
  ELSE 0

\* the start position Array.prototype.splice derives from its first argument
SpliceStart(index, len) ==
  IF index < 0 THEN (IF len + index < 0 THEN 0 ELSE len + index)
  ELSE IF index > len THEN len ELSE index

\* items without the element at 0-based position at
RemoveAt(items, at) == SubSeq(items, 1, at) \o SubSeq(items, at + 2, Len(items))

\* the last value of a comma-separated argument text, as safeEval returns it
LastArg(args, vars, heap) ==
  LET Last(r) == IF r.ok THEN Ok(r.v[Len(r.v)]) ELSE r
  IN IF args = <<>> THEN Ok(Undefined) ELSE Last(EvalArgs(args, vars, heap))

\* the effect of one list method on the array: the new elements, the
\* summary and the removed element, or the exception
ListEffect(listName, operation, args, items, vars, heap) ==
  LET Effect(newItems, operationResult, resultValue) ==
        [ok |-> TRUE, items |-> newItems, operationResult |-> operationResult,
         resultValue |-> resultValue]
      AppendValue(value) ==
        IF ~value.ok THEN value
        ELSE Effect(Append(items, value.v),
                    "Appended " \o __repr(value.v, heap) \o " to " \o listName, Null)
      Extend(iterable) ==
        IF ~iterable.ok THEN iterable
        ELSE IF IsArray(iterable.v)
        THEN Effect(items \o Items(iterable.v, heap),
                    "Extended " \o listName \o " with " \o __repr(iterable.v, heap), Null)
        ELSE Throw("'" \o TypeOf(iterable.v) \o "' object is not iterable")
      Remove(value) ==
        IF ~value.ok THEN value
        ELSE IF IndexOf(items, value.v) > 0
        THEN Effect(RemoveAt(items, IndexOf(items, value.v) - 1),
                    "Removed first occurrence of " \o __repr(value.v, heap)
                    \o " from " \o listName, Null)
        ELSE Throw("Value " \o __repr(value.v, heap) \o " not found in list")
      PopLast(resultValue) ==
        Effect(IF items = <<>> THEN items ELSE SubSeq(items, 1, Len(items) - 1),
               "Popped last element (" \o __repr(resultValue, heap) \o ") from "
               \o listName, resultValue)
      PopAt(index, at, resultValue) ==
        Effect(IF at < Len(items) THEN RemoveAt(items, at) ELSE items,
               "Popped element at index " \o ToString(index) \o " ("
               \o __repr(resultValue, heap) \o ") from " \o listName, resultValue)
      PopIndex(index, at) ==
        PopAt(index, at, IF at < Len(items) THEN items[at + 1] ELSE Undefined)
      Pop(arg) ==
        IF ~arg.ok THEN arg
        ELSE IF IsNum(arg.v) THEN PopIndex(arg.v.n, SpliceStart(arg.v.n, Len(items)))
        ELSE PopIndex(0, 0)
      InsertAt(index, at, value) ==
        Effect(SubSeq(items, 1, at) \o <<value.v>> \o SubSeq(items, at + 1, Len(items)),
               "Inserted " \o __repr(value.v, heap) \o " at index " \o ToString(index)
               \o " in " \o listName, Null)
      InsertValue(indexValue, value) ==
        IF ~value.ok THEN value
        ELSE IF IsNum(indexValue.v)
        THEN InsertAt(indexValue.v.n, SpliceStart(indexValue.v.n, Len(items)), value)
        ELSE InsertAt(0, 0, value)
      Insert(indexValue) ==
        IF ~indexValue.ok THEN indexValue
        ELSE InsertValue(indexValue,
                         IF Len(args) >= 2 THEN safeEval(args[2], vars, heap)
                         ELSE Throw("Error evaluating: undefined"))
  IN CASE operation = "append" -> AppendValue(LastArg(args, vars, heap))
       [] operation = "extend" -> Extend(LastArg(args, vars, heap))
       [] operation = "remove" -> Remove(LastArg(args, vars, heap))
       [] operation = "pop" ->
            IF args = <<>>
            THEN PopLast(IF items = <<>> THEN Undefined ELSE items[Len(items)])
            ELSE Pop(LastArg(args, vars, heap))
       [] operation = "insert" ->
            Insert(IF Len(args) >= 1 THEN safeEval(args[1], vars, heap)
                   ELSE Ok(Undefined))
       [] OTHER -> Effect(items, "", Null)

\* a list branch that skips a statement whose target is not a list
ListBranchIgnoringNonLists(lineData, vars, out, heap) ==
  LET listName == lineData.stmt.name
      operation == lineData.stmt.op
      list == Lookup(vars, listName)
      oldList == Ref(Len(heap) + 1)
      newVars == Bind(vars, listName, list)
      Record(eff, snap) ==
        Done(<<[line |-> lineData.originalIndex,
                action |-> "list_operation",
                list |-> listName,
                operation |-> operation,
                value |-> list,
                oldValue |-> oldList,
                operationResult |-> eff.operationResult,
                resultValue |-> eff.resultValue,
                variables |-> snap.variables,
                output |-> out]>>,
             newVars, out, snap.heap)
      Change(eff) ==
        IF ~eff.ok THEN eff
        ELSE Record(eff, DeepCopy(newVars, [Append(heap, heap[list.a])
                                              EXCEPT ![list.a] = eff.items]))
  IN IF ~IsRef(list)
     THEN Done(<<>>, vars, out, heap)
     ELSE Change(ListEffect(listName, operation, lineData.stmt.args, heap[list.a],
                            vars, heap))

\* else if (trimmed.match(/\w+\.(append|...)\(/)): list operations.  The
\* array is changed in place; oldList is a copy taken before the change.
ListBranch(lineData, vars, out, heap) ==
  LET listName == lineData.stmt.name
      operation == lineData.stmt.op
      list == Lookup(vars, listName)
      oldList == Ref(Len(heap) + 1)
      newVars == Bind(vars, listName, list)
      Record(eff, snap) ==
        Done(<<[line |-> lineData.originalIndex,
                action |-> "list_operation",
                list |-> listName,
                operation |-> operation,
                value |-> list,
                oldValue |-> oldList,
                operationResult |-> eff.operationResult,
                resultValue |-> eff.resultValue,
                variables |-> snap.variables,
                output |-> out]>>,
             newVars, out, snap.heap)
      Change(eff) ==
        IF ~eff.ok THEN eff
        ELSE Record(eff, DeepCopy(newVars, [Append(heap, heap[list.a])
                                              EXCEPT ![list.a] = eff.items]))
  IN IF ~IsRef(list)
     THEN Throw("'" \o TypeOf(list) \o "' object has no attribute '" \o operation \o "'")
     ELSE Change(ListEffect(listName, operation, lineData.stmt.args, heap[list.a],
                            vars, heap))

RECURSIVE PrintArgs(_, _, _)
\* the values of the print arguments; an argument that does not evaluate is
\* printed as its text
PrintArgs(argParts, vars, heap) ==
  IF argParts = <<>> THEN <<>>
  ELSE LET Value(r) ==
             IF r.ok THEN r.v
             ELSE IF argParts[1].e = "str" THEN Str(argParts[1].s)
             ELSE Str(Render(argParts[1]))
       IN <<Value(safeEval(argParts[1], vars, heap))>>
          \o PrintArgs(Tail(argParts), vars, heap)

\* printArgs.map(...).join(' ')
OutputText(printArgs, heap) ==
  Join([k \in 1..Len(printArgs) |-> __repr(printArgs[k], heap)], " ")

\* a print branch that replaces the output by the printed line
PrintBranchReplacingOutput(lineData, vars, out, heap) ==
  LET Record(printArgs, outputText, snap) ==
        Done(<<[line |-> lineData.originalIndex,
                action |-> "print",
                value |-> printArgs,
                outputText |-> outputText,
                variables |-> snap.variables,
                output |-> <<outputText>>]>>,
             vars, <<outputText>>, snap.heap)
      Write(printArgs) ==
        Record(printArgs, OutputText(printArgs, heap), DeepCopy(vars, heap))
  IN Write(PrintArgs(lineData.stmt.args, vars, heap))

\* else if (trimmed.startsWith('print(')): print statements
PrintBranch(lineData, vars, out, heap) ==
  LET Record(printArgs, outputText, snap) ==
        Done(<<[line |-> lineData.originalIndex,
                action |-> "print",
                value |-> printArgs,
                outputText |-> outputText,
                variables |-> snap.variables,
                output |-> Append(out, outputText)]>>,
             vars, Append(out, outputText), snap.heap)
      Write(printArgs) ==
        Record(printArgs, OutputText(printArgs, heap), DeepCopy(vars, heap))
  IN Write(PrintArgs(lineData.stmt.args, vars, heap))

\* else if (trimmed.startsWith('def ')): a def header met by processLine; the
\* body stays empty
DefBranch(lineData, vars, out, heap) ==
  LET funcName == lineData.stmt.name
      closure == DeepCopy(vars, heap)
      func == Func(funcName, lineData.stmt.params, <<>>, closure.variables)
      newVars == Bind(vars, funcName, func)
      snap == DeepCopy(newVars, closure.heap)
  IN Done(<<[line |-> lineData.originalIndex,
             action |-> "function_definition",
             functionName |-> funcName,
             params |-> func.params,
             bodyLines |-> 0,
             variables |-> snap.variables,
             output |-> out]>>,
          newVars, out, snap.heap)

\* else if (trimmed.match(/^\w+\(.*\)$/) && ...): standalone function call
CallBranch(lineData, vars, out, heap) ==
  LET funcName == lineData.stmt.name
      func == Lookup(vars, funcName)
      Record(args, result, snap) ==
        Done(<<[line |-> lineData.originalIndex,
                action |-> "function_call",
                functionName |-> funcName,
                args |-> args.v,
                returnValue |-> result.v,
                variables |-> snap.variables,
                output |-> result.output]>>,
             vars, result.output, snap.heap)
      Returned(args, result) ==
        IF ~result.ok THEN Throw("Function call error: " \o result.err)
        ELSE Record(args, result, DeepCopy(vars, heap))
      Call(args) ==
        IF ~args.ok THEN args
        ELSE Returned(args, handleFunctionCall(funcName, args.v, vars, out, heap))
  IN IF ~IsFunc(func) THEN Throw("'" \o funcName \o "' is not defined")
     ELSE Call(EvalArgs(lineData.stmt.args, vars, heap))

\* safeEval(iterableExpr, vars) with the catch clause that takes the empty
\* array for an expression that does not evaluate
IterableValue(iterableExpr, vars, heap) ==
  LET Caught(r) == IF r.ok THEN r.v ELSE Fresh(<<>>)
  IN Caught(safeEval(iterableExpr, vars, heap))

\* else if (trimmed.startsWith('for ')): a for header met by processLine
ForBranch(lineData, vars, out, heap) ==
  LET Record(st, snap) ==
        Done(<<[line |-> lineData.originalIndex,
                action |-> "for_loop_start",
                iterVar |-> lineData.stmt.var,
                iterable |-> st.v,
                variables |-> snap.variables,
                output |-> out]>>,
             vars, out, snap.heap)
      Stored(st) == Record(st, DeepCopy(vars, st.heap))
      Start(iterableValue) ==
        IF ~IsIterable(iterableValue)
        THEN Throw("'" \o TypeOf(iterableValue) \o "' object is not iterable")
        ELSE Stored(Store(iterableValue, heap))
  IN Start(IterableValue(lineData.stmt.e, vars, heap))

\* the if and while branches: the guard is evaluated once, false when it
\* does not evaluate
GuardBranchTakenAsTrue(lineData, action, vars, out, heap) ==
  LET snap == DeepCopy(vars, heap)
  IN Done(<<[line |-> lineData.originalIndex,
             action |-> action,
             condition |-> Render(lineData.stmt.e),
             conditionResult |-> TRUE,
             variables |-> snap.variables,
             output |-> out]>>,
          vars, out, snap.heap)

\* else if (trimmed.startsWith('if ')) and else if (trimmed.startsWith('while ')):
\* the guard is evaluated and the decision step is pushed
GuardBranch(lineData, action, vars, out, heap) ==
  LET snap == DeepCopy(vars, heap)
      Record(r) ==
        Done(<<[line |-> lineData.originalIndex,
                action |-> action,
                condition |-> Render(lineData.stmt.e),
                conditionResult |-> IF r.ok THEN Truthy(r.v) ELSE FALSE,
                variables |-> snap.variables,
                output |-> out]>>,
             vars, out, snap.heap)
  IN Record(safeEval(lineData.stmt.e, vars, heap))

\* else if (trimmed.length > 0 && !trimmed.endsWith(':')): other lines
OtherBranch(lineData, vars, out, heap) ==
  LET snap == DeepCopy(vars, heap)
  IN Done(<<[line |-> lineData.originalIndex,
             action |-> "execute",
             code |-> lineData.trimmed,
             variables |-> snap.variables,
             output |-> out]>>,
          vars, out, snap.heap)

\* the try block of processLine
TryBlock(lineData, vars, out, heap) ==
  LET branch == Classify(lineData)
  IN CASE branch = "assignment" -> AssignmentBranch(lineData, vars, out, heap)
       [] branch = "augmented" -> AugmentedBranch(lineData, vars, out, heap)
       [] branch = "list" -> ListBranch(lineData, vars, out, heap)
       [] branch = "print" -> PrintBranch(lineData, vars, out, heap)
       [] branch = "def" -> DefBranch(lineData, vars, out, heap)
       [] branch = "call" -> CallBranch(lineData, vars, out, heap)
       [] branch = "for" -> ForBranch(lineData, vars, out, heap)
       [] branch = "if" -> GuardBranch(lineData, "if_statement", vars, out, heap)
       [] branch = "while" -> GuardBranch(lineData, "while_loop_start", vars, out, heap)
       [] branch = "other" -> OtherBranch(lineData, vars, out, heap)
       [] OTHER -> Done(<<>>, vars, out, heap)

\* processLine(lineData, currentVars, currentOutput, lines): the steps of the
\* line and the environment, output and heap after it
processLine(lineData, currentVars, currentOutput, heap) ==
  LET Error(r, snap) ==
        [steps |-> <<[line |-> lineData.originalIndex,
                      action |-> "error",
                      error |-> r.err,
                      variables |-> snap.variables,
                      output |-> currentOutput]>>,
         variables |-> currentVars, output |-> currentOutput, heap |-> snap.heap]
      Catch(r) ==
        IF r.ok
        THEN [steps |-> r.steps, variables |-> r.variables, output |-> r.output,
              heap |-> r.heap]
        ELSE Error(r, DeepCopy(currentVars, heap))
  IN IF IsSkipped(lineData)
     THEN [steps |-> <<>>, variables |-> currentVars, output |-> currentOutput,
           heap |-> heap]
     ELSE Catch(TryBlock(lineData, currentVars, currentOutput, heap))

----------------------------------------------------------------------------
(* processLine: an assignment whose literal spans several lines *)

\* a line inside a dict literal: "key": value, with or without its comma
SEntry(key, e, comma) ==
  [k |-> "other",
   text |-> "\"" \o key \o "\": " \o Render(e) \o (IF comma THEN "," ELSE ""),
   piece |-> "entry", key |-> key, e |-> e, comma |-> comma]

\* a line inside a list literal: value, with or without its comma
SItem(e, comma) ==
  [k |-> "other",
   text |-> Render(e) \o (IF comma THEN "," ELSE ""),
   piece |-> "item", e |-> e, comma |-> comma]

RECURSIVE CountChar(_, _)
\* how often the character ch stands in text
CountChar(text, ch) ==
  IF text = "" THEN 0
  ELSE (IF Head(text) = ch THEN 1 ELSE 0) + CountChar(Tail(text), ch)

RECURSIVE CollectStructure(_, _, _, _, _)
\* the while loop of parseMultiLineStructure at index at (0-based)
CollectStructure(ls, at, structure, braceCount, bracketCount) ==
  IF at >= Len(ls) THEN [structure |-> structure, endIndex |-> at]
  ELSE LET line == ls[at + 1].trimmed
           braces == braceCount + CountChar(line, "{") - CountChar(line, "}")
           brackets == bracketCount + CountChar(line, "[") - CountChar(line, "]")
       IN IF braces = 0 /\ brackets = 0
          THEN [structure |-> structure \o line, endIndex |-> at]
          ELSE CollectStructure(ls, at + 1,
                                structure \o line
                                  \o (IF at + 1 < Len(ls) THEN " " ELSE ""),
                                braces, brackets)

\* parseMultiLineStructure(lines, startIndex): the texts of the lines from
\* startIndex up to the line on which every brace and bracket is closed,
\* joined by blanks, and the index of that line
parseMultiLineStructure(ls, startIndex) == CollectStructure(ls, startIndex, "", 0, 0)

\* (expression.startsWith('{') || expression.startsWith('[')) &&
\* (!expression.endsWith('}') && !expression.endsWith(']')), reached when the
\* right-hand side holds neither a comprehension nor a call
OpensStructure(lineData) ==
  /\ IsAssignment(lineData)
  /\ LET expression == AssignExpression(lineData)
         text == Render(expression)
     IN /\ FindComp(expression) = <<>>
        /\ FindCall(expression) = <<>>
        /\ StartsWith(text, "{") \/ StartsWith(text, "[")
        /\ ~EndsWith(text, "}") /\ ~EndsWith(text, "]")

\* structure.slice(structure.indexOf(expression.charAt(0)))
FullExpression(structure, expression) ==
  LET first == SubSeq(Render(expression), 1, 1)
      at == CHOOSE p \in 1..Len(structure) :
              /\ SubSeq(structure, p, p) = first
              /\ \A q \in 1..(p - 1) : SubSeq(structure, q, q) # first
  IN SubSeq(structure, at, Len(structure))

\* the lines of the literal between the line that opens it and the line
\* that closes it
Pieces(ls, startIndex, endIndex) ==
  SelectSeq(SubSeq(ls, startIndex + 2, endIndex), LAMBDA l : l.trimmed # "")

\* whether JSON.parse accepts the full expression: the opening bracket, the
\* entries or items each on its line with a comma after all but the last, and
\* the closing bracket on its own line
StructureParses(ls, lineData, found) ==
  LET open == Render(AssignExpression(lineData))
      pieces == Pieces(ls, lineData.originalIndex, found.endIndex)
  IN /\ open \in {"{", "["}
     /\ found.endIndex < Len(ls)
     /\ ls[found.endIndex + 1].trimmed = (IF open = "{" THEN "}" ELSE "]")
     /\ \A k \in 1..Len(pieces) :
          /\ "piece" \in DOMAIN pieces[k].stmt
          /\ pieces[k].stmt.piece = (IF open = "{" THEN "entry" ELSE "item")
          /\ pieces[k].stmt.e.e \in {"num", "str"}
          /\ pieces[k].stmt.comma = (k < Len(pieces))

\* the object or array JSON.parse builds
StructureValue(ls, lineData, found) ==
  LET pieces == Pieces(ls, lineData.originalIndex, found.endIndex)
      Value(e) == IF e.e = "num" THEN Num(e.n) ELSE Str(e.s)
  IN IF Render(AssignExpression(lineData)) = "{"
     THEN Dict([k \in 1..Len(pieces) |->
                  [k |-> pieces[k].stmt.key, v |-> Value(pieces[k].stmt.e)]])
     ELSE Fresh([k \in 1..Len(pieces) |-> Value(pieces[k].stmt.e)])

\* the assignment branch for a literal that is not closed on its line: the
\* value is parsed from the lines that follow, and the text of the literal
\* is the value when it does not parse
MultiLineAssignment(ls, lineData, vars, out, h) ==
  LET varName == AssignTarget(lineData)
      expression == AssignExpression(lineData)
      oldValue == Lookup(vars, varName)
      found == parseMultiLineStructure(ls, lineData.originalIndex)
      value == IF StructureParses(ls, lineData, found)
               THEN StructureValue(ls, lineData, found)
               ELSE Str(FullExpression(found.structure, expression))
      Record(st, snap) ==
        [steps |-> <<[line |-> lineData.originalIndex,
                      action |-> IF oldValue # Undefined THEN "reassign" ELSE "assign",
                      variable |-> varName,
                      value |-> st.v,
                      oldValue |-> oldValue,
                      expression |-> Render(expression),
                      variables |-> snap.variables,
                      output |-> out]>>,
         variables |-> Bind(vars, varName, st.v), output |-> out, heap |-> snap.heap]
      Snapshot(st) == Record(st, DeepCopy(Bind(vars, varName, st.v), st.heap))
  IN Snapshot(Store(value, h))

\* processLine(lineData, currentVars, currentOutput, lines) with the lines
\* of the text it is handed
processLineOf(ls, lineData, vars, out, h) ==
  IF ~IsSkipped(lineData) /\ OpensStructure(lineData)
  THEN MultiLineAssignment(ls, lineData, vars, out, h)
  ELSE processLine(lineData, vars, out, h)

----------------------------------------------------------------------------
(* Lines that are never left *)

\* whether processLine, or the for header of the main loop, hands the line
\* to an evaluation that never returns.  The right-hand side of an
\* assignment is evaluated unless it is a comprehension, a call of a
\* function of the program or a literal that JSON.parse accepts; the
\* arguments of print, the iterable of for and the guards of if and while
\* are always evaluated.
LineHangs(lineData, vars, heap) ==
  LET branch == Classify(lineData)
      expression == AssignExpression(lineData)
      Evaluated ==
        /\ FindComp(expression) = <<>>
        /\ FindCall(expression) # <<>>
             => ~(Bound(vars, FindCall(expression)[1].f) /\ IsFunc(vars[FindCall(expression)[1].f]))
        /\ ~(expression.e = "list" /\ JsonParses(expression))
        /\ ~DictParses(expression)
  IN CASE branch = "assignment" -> Evaluated /\ Hangs(expression, vars, heap)
       [] branch = "augmented" -> Hangs(lineData.stmt.e, vars, heap)
       [] branch = "print" ->
            \E k \in 1..Len(lineData.stmt.args) : Hangs(lineData.stmt.args[k], vars, heap)
       [] branch \in {"for", "if", "while"} ->
            lineData.stmt.k \in {"for", "if", "while"} /\ Hangs(lineData.stmt.e, vars, heap)
       [] OTHER -> FALSE

----------------------------------------------------------------------------

(* The second declaration of PythonCodeVisualizer (src/src/App.jsx, lines  *)
(* 1991-3053): its safeEval and the branches of its processLine.  The      *)
(* helper functions and the augmented, list, for, if, while and other      *)
(* branches have the text of the first declaration and are modelled by the *)
(* definitions above.  A dict is modelled by value: the texts parsed bind  *)
(* every dict to one name.                                                 *)

RECURSIVE SecondRewrite(_)
\* the chain of String.replace calls of the second safeEval: "//" becomes
\* the text "Math.floor($1/$2)" and "**" the text "Math.pow($1,$2)"
SecondRewrite(x) ==
  CASE x.e = "lit" ->
         [x EXCEPT !.w = CASE x.w = "True" -> "true"
                           [] x.w = "False" -> "false"
                           [] x.w = "None" -> "null"
                           [] OTHER -> x.w]
    [] x.e = "call" ->
         [x EXCEPT !.f = CASE x.f = "print" -> "__print"
                           [] x.f = "range" -> "__range"
                           [] x.f = "len" -> "__len"
                           [] OTHER -> x.f,
                   !.args = [k \in 1..Len(x.args) |-> SecondRewrite(x.args[k])]]
    [] x.e = "bin" ->
         [e |-> "bin",
          op |-> IF x.op = "//" THEN "Math.floor($1/$2)"
                 ELSE IF x.op = "**" THEN "Math.pow($1,$2)"
                 ELSE x.op,
          l |-> SecondRewrite(x.l), r |-> SecondRewrite(x.r)]
    [] x.e = "list" ->
         [x EXCEPT !.items = [k \in 1..Len(x.items) |-> SecondRewrite(x.items[k])]]
    [] OTHER -> x

\* the number of "=" in a text: parts.length - 1 of text.split('=')
EqualsSigns(text) == Cardinality({k \in 1..Len(text) : SubSeq(text, k, k) = "="})

\* the digits
DigitTexts == {ToString(d) : d \in 0..9}

RECURSIVE Numeral(_, _)
\* parseFloat of a text of digits, acc being the value of the digits read
Numeral(text, acc) ==
  IF text = "" THEN acc
  ELSE Numeral(Tail(text), 10 * acc + (CHOOSE d \in 0..9 : ToString(d) = SubSeq(text, 1, 1)))

\* the catch clause of the second safeEval, for an expression text with one
\* "=": the value its right side is taken for, or the exception
SimpleAssignment(text, variables, err) ==
  LET rightSide == Trim(SubSeq(text, FirstEq(text) + 1, Len(text)))
      Quoted(q) == Len(rightSide) >= 2 /\ StartsWith(rightSide, q) /\ EndsWith(rightSide, q)
  IN IF Bound(variables, rightSide) THEN Ok(variables[rightSide])
     ELSE IF rightSide = "" THEN Ok(NaN)
     ELSE IF \A k \in 1..Len(rightSide) : SubSeq(rightSide, k, k) \in DigitTexts
     THEN Ok(Num(Numeral(rightSide, 0)))
     ELSE IF Quoted("\"") \/ Quoted("'")
     THEN Ok(Str(SubSeq(rightSide, 2, Len(rightSide) - 1)))
     ELSE IF rightSide = "True" THEN Ok(Bool(TRUE))
     ELSE IF rightSide = "False" THEN Ok(Bool(FALSE))
     ELSE IF rightSide = "None" THEN Ok(Null)
     ELSE Throw("Error evaluating: " \o text \o " - " \o err)

\* safeEval(expression, variables, context) of the second declaration
SecondSafeEval(expression, variables, heap) ==
  LET text == Render(expression)
      Object(vals) ==
        IF ~vals.ok THEN vals
        ELSE Ok(Dict([k \in 1..Len(vals.v) |-> [k |-> expression.pairs[k].k, v |-> vals.v[k]]]))
      Run(jsExpression) ==
        IF expression.e = "dict"
        THEN Object(JsEvalAll([k \in 1..Len(expression.pairs) |->
                                 SecondRewrite(expression.pairs[k].v)], variables, heap))
        ELSE IF JsSyntaxOK(jsExpression) THEN JsEval(jsExpression, variables, heap)
        ELSE Throw("Unexpected identifier")
      Catch(result) ==
        IF result.ok THEN result
        ELSE IF /\ Includes(text, "=")
                /\ ~\E op \in {"==", "!=", "<=", ">=", "+="} : Includes(text, op)
                /\ EqualsSigns(text) = 1
        THEN SimpleAssignment(text, variables, result.err)
        ELSE Throw("Error evaluating: " \o text \o " - " \o result.err)
  IN Catch(Run(SecondRewrite(expression)))

RECURSIVE SecondEvalArgs(_, _, _)
\* the values of the argument texts, or the first exception
SecondEvalArgs(argParts, vars, heap) ==
  IF argParts = <<>> THEN Ok(<<>>)
  ELSE LET Rest(first) ==
             IF ~first.ok THEN first
             ELSE LET rest == SecondEvalArgs(Tail(argParts), vars, heap)
                  IN IF ~rest.ok THEN rest ELSE Ok(<<first.v>> \o rest.v)
       IN Rest(SecondSafeEval(argParts[1], vars, heap))

----------------------------------------------------------------------------
(* The second processLine: classification *)

SecondNotAssignOps == {"==", "!=", "<=", ">=", "+="}
DictMethods == {"get", "keys", "values", "items", "update", "pop"}

\* trimmed.includes('=') && !['==', '!=', '<=', '>=', '+='].some(...)
IsSecondAssignment(lineData) ==
  /\ Includes(lineData.trimmed, "=")
  /\ ~\E op \in SecondNotAssignOps : Includes(lineData.trimmed, op)

\* the expression the text after the first "=" stands for
SecondAssignExpression(lineData) ==
  IF lineData.stmt.k \in {"assign", "aug"} /\ ~Includes(lineData.stmt.name, "=")
  THEN lineData.stmt.e
  ELSE ERaw(Trim(SubSeq(lineData.trimmed, FirstEq(lineData.trimmed) + 1,
                        Len(lineData.trimmed))))

\* trimmed.match(/\w+\.(get|keys|values|items|update|pop)\(/)
IsDictOperation(lineData) ==
  /\ lineData.stmt.k = "listop"
  /\ \E m \in DictMethods : Includes(lineData.trimmed, "." \o m \o "(")

\* trimmed.match(/\w+\(.*\)/) && !trimmed.startsWith('print(')
IsSecondCall(lineData) ==
  /\ lineData.stmt.k \in {"call", "listop"}
  /\ ~StartsWith(lineData.trimmed, "print(")

\* the branch of the if/else-if chain of the second processLine that a line
\* takes
SecondClassify(lineData) ==
  IF IsSecondAssignment(lineData) THEN "assignment"
  ELSE IF IsAugmented(lineData) THEN "augmented"
  ELSE IF IsListOperation(lineData) THEN "list"
  ELSE IF IsDictOperation(lineData) THEN "dict"
  ELSE IF IsPrint(lineData) THEN "print"
  ELSE IF IsFor(lineData) THEN "for"
  ELSE IF IsIf(lineData) THEN "if"
  ELSE IF IsWhile(lineData) THEN "while"
  ELSE IF IsDef(lineData) THEN "def"
  ELSE IF IsSecondCall(lineData) THEN "call"
  ELSE IF IsOther(lineData) THEN "other"
  ELSE "none"

----------------------------------------------------------------------------
(* The second processLine: the branches *)

\* the value of the right-hand side: a list or dict literal goes to
\* JSON.parse, everything else to safeEval; what does not evaluate is taken
\* as its text
SecondAssignValue(expression, vars, heap) ==
  LET text == Render(expression)
      TextOr(r) == IF r.ok THEN r.v ELSE Str(text)
  IN IF StartsWith(text, "[") /\ EndsWith(text, "]")
     THEN (IF expression.e = "list" /\ JsonParses(expression)
           THEN JsonParse(expression) ELSE Str(text))
     ELSE IF StartsWith(text, "{") /\ EndsWith(text, "}")
     THEN (IF DictParses(expression) THEN DictParse(expression) ELSE Str(text))
     ELSE TextOr(SecondSafeEval(expression, vars, heap))

\* if (trimmed.includes('=') && ...): plain assignment
SecondAssignmentBranch(lineData, vars, out, heap) ==
  LET varName == AssignTarget(lineData)
      expression == SecondAssignExpression(lineData)
      oldValue == Lookup(vars, varName)
      Record(st, snap) ==
        Done(<<[line |-> lineData.originalIndex,
                action |-> IF oldValue # Undefined THEN "reassign" ELSE "assign",
                variable |-> varName,
                value |-> st.v,
                oldValue |-> oldValue,
                expression |-> Render(expression),
                variables |-> snap.variables,
                output |-> out]>>,
             Bind(vars, varName, st.v), out, snap.heap)
      Snapshot(st) == Record(st, DeepCopy(Bind(vars, varName, st.v), st.heap))
  IN Snapshot(Store(SecondAssignValue(expression, vars, heap), heap))

\* the position of the key named name among the entries, 0 when absent
KeyPosition(entries, name) ==
  IF \E k \in 1..Len(entries) : entries[k].k = name
  THEN CHOOSE k \in 1..Len(entries) : entries[k].k = name
  ELSE 0

\* the effect of one dict method: the entries afterwards, the summary and
\* the value handed back, or the exception.  A dict is held by value, which
\* shows every method but update, the one that changes the object in place.
DictEffect(dictName, operation, args, entries, vars, heap) ==
  LET Effect(newEntries, operationResult, resultValue) ==
        [ok |-> TRUE, entries |-> newEntries, operationResult |-> operationResult,
         resultValue |-> resultValue]
      \* args.split(',').map(s => s.trim()): the key text and the default
      key == IF args = <<>> THEN Ok(Undefined) ELSE SecondSafeEval(args[1], vars, heap)
      hasDefault == Len(args) >= 2
      Present(k) == KeyPosition(entries, ToJsString(k, heap)) > 0
      Held(k) == entries[KeyPosition(entries, ToJsString(k, heap))].v
      Got(k, resultValue) ==
        Effect(entries,
               "Got value for key " \o __repr(k, heap) \o ": " \o __repr(resultValue, heap),
               resultValue)
      GetDefault(k, d) == IF ~d.ok THEN d ELSE Got(k, d.v)
      Get(k) ==
        IF Present(k) THEN Got(k, Held(k))
        ELSE IF hasDefault THEN GetDefault(k, SecondSafeEval(args[2], vars, heap))
        ELSE Got(k, Null)
      PopDefault(k, d) ==
        IF ~d.ok THEN d
        ELSE Effect(entries,
                    "Key " \o __repr(k, heap) \o " not found, returned default value "
                    \o __repr(d.v, heap), d.v)
      Pop(k) ==
        IF Present(k)
        THEN Effect(RemoveAt(entries, KeyPosition(entries, ToJsString(k, heap)) - 1),
                    "Popped key " \o __repr(k, heap) \o " with value "
                    \o __repr(Held(k), heap), Held(k))
        ELSE IF hasDefault THEN PopDefault(k, SecondSafeEval(args[2], vars, heap))
        ELSE Throw("KeyError: " \o __repr(k, heap))
  IN CASE operation = "get" -> (IF ~key.ok THEN key ELSE Get(key.v))
       [] operation = "pop" -> (IF ~key.ok THEN key ELSE Pop(key.v))
       [] operation = "keys" ->
            Effect(entries, "Retrieved keys from " \o dictName,
                   Fresh([k \in 1..Len(entries) |-> Str(entries[k].k)]))
       [] operation = "values" ->
            Effect(entries, "Retrieved values from " \o dictName,
                   Fresh([k \in 1..Len(entries) |-> entries[k].v]))
       [] operation = "items" ->
            Effect(entries, "Retrieved items from " \o dictName,
                   Fresh([k \in 1..Len(entries) |->
                            Fresh(<<Str(entries[k].k), entries[k].v>>)]))

\* else if (trimmed.match(/\w+\.(get|keys|values|items|update|pop)\(/)): dict
\* operations
SecondDictBranch(lineData, vars, out, heap) ==
  LET dictName == lineData.stmt.name
      operation == lineData.stmt.op
      dict == Lookup(vars, dictName)
      Record(eff, snap) ==
        Done(<<[line |-> lineData.originalIndex,
                action |-> "dict_operation",
                dict |-> dictName,
                operation |-> operation,
                value |-> Dict(eff.entries),
                oldValue |-> dict,
                operationResult |-> eff.operationResult,
                resultValue |-> eff.resultValue,
                variables |-> snap.variables,
                output |-> out]>>,
             Bind(vars, dictName, Dict(eff.entries)), out, snap.heap)
      Change(eff) ==
        IF ~eff.ok THEN eff
        ELSE Record(eff, DeepCopy(Bind(vars, dictName, Dict(eff.entries)), heap))
  IN IF TypeOf(dict) # "object" \/ dict = Null \/ IsArray(dict)
     THEN Throw("'" \o TypeOf(dict) \o "' object has no attribute '" \o operation \o "'")
     ELSE Change(DictEffect(dictName, operation, lineData.stmt.args, dict.entries,
                            vars, heap))

RECURSIVE WithoutQuotes(_)
\* args.replace(/['"]/g, '')
WithoutQuotes(text) ==
  IF text = "" THEN ""
  ELSE (IF SubSeq(text, 1, 1) \in {"'", "\""} THEN "" ELSE SubSeq(text, 1, 1))
       \o WithoutQuotes(SubSeq(text, 2, Len(text)))

\* else if (trimmed.startsWith('print(')): the whole argument text is one
\* expression of the host, whose commas make it yield its last part
SecondPrintBranch(lineData, vars, out, heap) ==
  LET args == lineData.stmt.args
      Record(printValue, outputText, snap) ==
        Done(<<[line |-> lineData.originalIndex,
                action |-> "print",
                value |-> printValue,
                outputText |-> outputText,
                variables |-> snap.variables,
                output |-> Append(out, outputText)]>>,
             vars, Append(out, outputText), snap.heap)
      Write(printValue) ==
        Record(printValue, __repr(printValue, heap), DeepCopy(vars, heap))
      Value(r) ==
        IF ~r.ok THEN Str(WithoutQuotes(RenderAll(args, ", ")))
        ELSE IF r.v = <<>> THEN Undefined
        ELSE r.v[Len(r.v)]
  IN Write(Value(SecondEvalArgs(args, vars, heap)))

\* else if (trimmed.startsWith('def ')): the function object holds a copy of
\* the environment and no body
SecondDefBranch(lineData, vars, out, heap) ==
  LET funcName == lineData.stmt.name
      closure == DeepCopy(vars, heap)
      \* { name: funcName, params: ..., variables: JSON.parse(JSON.stringify(vars)) }
      func == [t |-> "fn", name |-> funcName, params |-> lineData.stmt.params,
               closure |-> closure.variables]
      newVars == Bind(vars, funcName, func)
      snap == DeepCopy(newVars, closure.heap)
  IN Done(<<[line |-> lineData.originalIndex,
             action |-> "function_definition",
             functionName |-> funcName,
             variables |-> snap.variables,
             output |-> out]>>,
          newVars, out, snap.heap)

\* else if (trimmed.match(/\w+\(.*\)/) && ...): a call is recorded with the
\* values of its arguments; no body is run
SecondCallBranch(lineData, vars, out, heap) ==
  LET funcName == IF lineData.stmt.k = "call" THEN lineData.stmt.name ELSE lineData.stmt.op
      func == Lookup(vars, funcName)
      Record(argValues, snap) ==
        Done(<<[line |-> lineData.originalIndex,
                action |-> "function_call",
                functionName |-> funcName,
                args |-> argValues,
                variables |-> snap.variables,
                output |-> out]>>,
             vars, out, snap.heap)
      Call(argValues) ==
        IF ~argValues.ok THEN argValues
        ELSE Record(IF argValues.v = <<>> THEN <<Undefined>> ELSE argValues.v,
                    DeepCopy(vars, heap))
  IN IF TypeOf(func) # "object" \/ func = Null
     THEN Throw("'" \o funcName \o "' is not defined")
     ELSE Call(SecondEvalArgs(lineData.stmt.args, vars, heap))

\* the try block of the second processLine
SecondTryBlock(lineData, vars, out, heap) ==
  LET branch == SecondClassify(lineData)
  IN CASE branch = "assignment" -> SecondAssignmentBranch(lineData, vars, out, heap)
       [] branch = "augmented" -> AugmentedBranch(lineData, vars, out, heap)
       [] branch = "list" -> ListBranch(lineData, vars, out, heap)
       [] branch = "dict" -> SecondDictBranch(lineData, vars, out, heap)
       [] branch = "print" -> SecondPrintBranch(lineData, vars, out, heap)
       [] branch = "for" -> ForBranch(lineData, vars, out, heap)
       [] branch = "if" -> GuardBranch(lineData, "if_statement", vars, out, heap)
       [] branch = "while" -> GuardBranch(lineData, "while_loop_start", vars, out, heap)
       [] branch = "def" -> SecondDefBranch(lineData, vars, out, heap)
       [] branch = "call" -> SecondCallBranch(lineData, vars, out, heap)
       [] branch = "other" -> OtherBranch(lineData, vars, out, heap)
       [] OTHER -> Done(<<>>, vars, out, heap)

\* processLine(lineData, currentVars, currentOutput) of the second
\* declaration: the steps of the line and the environment, output and heap
\* after it.  No branch changes vars or out before it throws, so the catch
\* clause records and returns what the line was given.
SecondProcessLine(lineData, currentVars, currentOutput, heap) ==
  LET Error(r, snap) ==
        [steps |-> <<[line |-> lineData.originalIndex,
                      action |-> "error",
                      error |-> r.err,
                      variables |-> snap.variables,
                      output |-> currentOutput]>>,
         variables |-> currentVars, output |-> currentOutput, heap |-> snap.heap]
      Catch(r) ==
        IF r.ok
        THEN [steps |-> r.steps, variables |-> r.variables, output |-> r.output,
              heap |-> r.heap]
        ELSE Error(r, DeepCopy(currentVars, heap))
  IN IF IsSkipped(lineData)
     THEN [steps |-> <<>>, variables |-> currentVars, output |-> currentOutput,
           heap |-> heap]
     ELSE Catch(SecondTryBlock(lineData, currentVars, currentOutput, heap))

RECURSIVE DeeperEnd(_, _, _)
\* while (j < lines.length && lines[j].indent > indent) j++, from the
\* 0-based index j
DeeperEnd(ls, j, indent) ==
  IF j < Len(ls) /\ ls[j + 1].indent > indent THEN DeeperEnd(ls, j + 1, indent) ELSE j

----------------------------------------------------------------------------
(* parseCode as a state machine: one action per turn of its main loop and   *)
(* of the loop that unrolls a top-level for                                *)

VARIABLES
  code,       \* the source text held by the component
  pc,         \* where parseCode stands: idle, main, loop, block, done, threw, hung
  lines,      \* parseCode: the segmented lines
  i,          \* parseCode: the index of the main loop
  steps,      \* parseCode: the steps pushed so far
  variables,  \* parseCode: the environment
  output,     \* parseCode: the output
  loop,       \* parseCode: the top-level for being unrolled, or the block
  heap,       \* the arrays of the host, by address
  builds,     \* how many times parseCode has returned or thrown
  previous,   \* the trace the previous call of parseCode returned
  executionState,     \* useState: step, variables, currentLine, isRunning,
                      \* executionSteps, output
  error,              \* useState: the message shown, or NoError
  executionInterval,  \* useRef: the interval timer held, or NoTimer
  timers,             \* the interval timers of the host that are live
  caller      \* who called resetVisualization: mount, reset, play

vars == <<code, pc, lines, i, steps, variables, output, loop, heap, builds, previous,
          executionState, error, executionInterval, timers, caller>>

\* the state of the component that parseCode neither reads nor writes
component == <<executionState, error, executionInterval, timers, caller>>

NoError == "null"
NoTimer == 0

NoLoop == [active |-> FALSE]

\* the lines after position at (1-based) that belong to the block of a header
\* with indentation indent: blank lines and deeper lines, up to the first
\* other line
RECURSIVE BlockEnd(_, _, _)
BlockEnd(ls, j, indent) ==
  IF j < Len(ls) /\ (ls[j + 1].trimmed = "" \/ ls[j + 1].indent > indent)
  THEN BlockEnd(ls, j + 1, indent)
  ELSE j

\* the lines of index from..to-1 whose text is not empty
BlockBody(ls, from, to) ==
  SelectSeq(SubSeq(ls, from + 1, to), LAMBDA l : l.trimmed # "")

----------------------------------------------------------------------------
(* What a trace shows: values with every array written out *)

RECURSIVE ResolveValue(_, _)
ResolveValue(v, h) ==
  IF IsArray(v)
  THEN LET items == Items(v, h)
       IN [t |-> "array", items |-> [k \in 1..Len(items) |-> ResolveValue(items[k], h)]]
  ELSE IF IsFunc(v)
  THEN [v EXCEPT !.closure = [n \in DOMAIN v.closure |-> ResolveValue(v.closure[n], h)]]
  ELSE v

ResolveEnv(env, h) == [n \in DOMAIN env |-> ResolveValue(env[n], h)]

\* the fields of a step that hold one value, and those that hold several
ValueFields == {"oldValue", "rightValue", "iterable", "currentValue", "returnValue",
                "resultValue"}
ValueListFields == {"args"}

\* a step as a reader of the trace sees it
ResolveStep(st, h) ==
  [f \in DOMAIN st |->
     CASE f = "variables" -> ResolveEnv(st[f], h)
       [] f \in ValueFields -> ResolveValue(st[f], h)
       [] f \in ValueListFields \/ (f = "value" /\ st.action = "print") ->
            [k \in 1..Len(st[f]) |-> ResolveValue(st[f][k], h)]
       [] f = "value" -> ResolveValue(st[f], h)
       [] OTHER -> st[f]]

ResolveTrace(trace, h) == [k \in 1..Len(trace) |-> ResolveStep(trace[k], h)]

----------------------------------------------------------------------------
(* parseCode *)

\* the line the main loop stands at
Current == lines[i + 1]

\* steps.push(...result.steps); variables = result.variables;
\* output = result.output
TakeResult(result) ==
  /\ steps' = steps \o result.steps
  /\ variables' = result.variables
  /\ output' = result.output
  /\ heap' = result.heap

\* setInterval: a timer that is not live yet
NewTimer(live) == CHOOSE t \in 1..(Cardinality(live) + 1) : t \notin live

\* togglePlay after its call of resetVisualization:
\* executionInterval.current = setInterval(nextStep, speed);
\* setExecutionState(prev => ({ ...prev, isRunning: true }))
StartPlaying(state, interval, live) ==
  /\ executionState' = [state EXCEPT !.isRunning = TRUE]
  /\ executionInterval' = NewTimer(live)
  /\ timers' = live \cup {NewTimer(live)}

\* what follows the call of resetVisualization
AfterReset(state, interval, live) ==
  /\ IF caller = "play"
     THEN StartPlaying(state, interval, live)
     ELSE /\ executionState' = state
          /\ executionInterval' = interval
          /\ timers' = live
  /\ caller' = "none"

\* resetVisualization after parseCode has returned: the state is replaced
\* and the interval timer held is cleared
ResetDone(trace) ==
  /\ AfterReset([executionState EXCEPT
                   !.step = 0,
                   !.variables = EmptyEnv,
                   !.currentLine = IF Len(trace) > 0 THEN trace[1].line ELSE -1,
                   !.isRunning = FALSE,
                   !.executionSteps = trace,
                   !.output = <<>>],
                NoTimer, timers \ {executionInterval})
  /\ error' = error

\* resetVisualization that drops the trace when parseCode has thrown
ResetFailedDropsTrace(message) ==
  /\ AfterReset([executionState EXCEPT !.step = 0, !.currentLine = -1,
                                       !.executionSteps = <<>>],
                executionInterval, timers)
  /\ error' = "Error parsing code: " \o message

\* resetVisualization when parseCode has thrown:
\* setError(`Error parsing code: ${err.message}`)
ResetFailed(message) ==
  /\ AfterReset(executionState, executionInterval, timers)
  /\ error' = "Error parsing code: " \o message

\* parseCode that starts from the environment the last call left behind
ParseStartKeepsVariables ==
  /\ pc = "idle" \/ (pc \in {"done", "threw"} /\ builds < MaxBuilds)
  /\ pc' = "main"
  /\ lines' = Segment(code)
  /\ i' = 0
  /\ steps' = <<>>
  /\ variables' = variables
  /\ output' = <<>>
  /\ loop' = NoLoop
  /\ previous' = IF builds > 0 THEN ResolveTrace(steps, heap) ELSE previous
  /\ error' = NoError
  /\ caller' = IF pc = "idle" THEN "mount" ELSE "reset"
  /\ UNCHANGED <<code, heap, builds, executionState, executionInterval, timers>>

\* const lines = ...; const steps = []; let variables = {}; let output = []
BeginParse ==
  /\ pc' = "main"
  /\ lines' = Segment(code)
  /\ i' = 0
  /\ steps' = <<>>
  /\ variables' = EmptyEnv
  /\ output' = <<>>
  /\ loop' = NoLoop
  /\ previous' = IF builds > 0 THEN ResolveTrace(steps, heap) ELSE previous

\* resetVisualization, called by the effect that runs once after mounting
\* and by the Reset button: setError(null), then parseCode(code) starts
ParseStart ==
  /\ pc = "idle" \/ (pc \in {"done", "threw"} /\ builds < MaxBuilds)
  /\ BeginParse
  /\ error' = NoError
  /\ caller' = IF pc = "idle" THEN "mount" ELSE "reset"
  /\ UNCHANGED <<code, heap, builds, executionState, executionInterval, timers>>

\* if (trimmed === '' || trimmed.startsWith('#')) continue
MainSkip ==
  /\ pc = "main" /\ i < Len(lines)
  /\ IsSkipped(Current)
  /\ i' = i + 1
  /\ UNCHANGED <<code, pc, lines, steps, variables, output, loop, heap, builds, previous>>
  /\ UNCHANGED component

\* a top-level for header whose iterable is an array or a string: the body
\* is collected and the for_loop_start step is pushed
MainFor ==
  /\ pc = "main" /\ i < Len(lines)
  /\ ~IsSkipped(Current) /\ IsFor(Current) /\ Current.stmt.k = "for"
  /\ ~LineHangs(Current, variables, heap)
  /\ LET j == BlockEnd(lines, i + 1, Current.indent)
         loopBody == BlockBody(lines, i + 1, j)
         Start(st, snap) ==
           /\ steps' = Append(steps, [line |-> Current.originalIndex,
                                      action |-> "for_loop_start",
                                      iterVar |-> Current.stmt.var,
                                      iterable |-> st.v,
                                      loopBody |-> [k \in 1..Len(loopBody) |->
                                                      loopBody[k].originalIndex],
                                      variables |-> snap.variables,
                                      output |-> output])
           /\ heap' = snap.heap
           /\ loop' = [active |-> TRUE, line |-> Current.originalIndex,
                       iterVar |-> Current.stmt.var, iterable |-> st.v,
                       body |-> loopBody, next |-> j, iterIndex |-> 0, pos |-> 0]
         Stored(st) == Start(st, DeepCopy(variables, st.heap))
         Header(iterableValue) ==
           /\ IsIterable(iterableValue)
           /\ Stored(Store(iterableValue, heap))
     IN Header(IterableValue(Current.stmt.e, variables, heap))
  /\ pc' = "loop"
  /\ UNCHANGED <<code, lines, i, variables, output, builds, previous>>
  /\ UNCHANGED component

\* a top-level for header whose iterable is neither an array nor a string:
\* the Error thrown at the header leaves parseCode
MainForThrow ==
  /\ pc = "main" /\ i < Len(lines)
  /\ ~IsSkipped(Current) /\ IsFor(Current) /\ Current.stmt.k = "for"
  /\ ~LineHangs(Current, variables, heap)
  /\ LET Thrown(iterableValue) ==
           /\ ~IsIterable(iterableValue)
           /\ ResetFailed("'" \o TypeOf(iterableValue) \o "' object is not iterable")
     IN Thrown(IterableValue(Current.stmt.e, variables, heap))
  /\ pc' = "threw"
  /\ builds' = builds + 1
  /\ UNCHANGED <<code, lines, i, steps, variables, output, loop, heap, previous>>

\* iterIndex < iterableValue.length: the loop variable is bound and the
\* for_loop_iteration step is pushed
LoopIteration ==
  /\ pc = "loop" /\ loop.pos = 0
  /\ LET elements == Elements(loop.iterable, heap)
     IN /\ loop.iterIndex < Len(elements)
        /\ LET item == elements[loop.iterIndex + 1]
               newVars == Bind(variables, loop.iterVar, item)
               snap == DeepCopy(newVars, heap)
           IN /\ variables' = newVars
              /\ steps' = Append(steps, [line |-> loop.line,
                                         action |-> "for_loop_iteration",
                                         iterVar |-> loop.iterVar,
                                         currentValue |-> item,
                                         iterationIndex |-> loop.iterIndex,
                                         totalIterations |-> Len(elements),
                                         variables |-> snap.variables,
                                         output |-> output])
              /\ heap' = snap.heap
        /\ loop' = IF loop.body = <<>>
                   THEN [loop EXCEPT !.iterIndex = @ + 1]
                   ELSE [loop EXCEPT !.pos = 1]
  /\ UNCHANGED <<code, pc, lines, i, output, builds, previous>>
  /\ UNCHANGED component

\* for (const bodyLine of loopBody): one body line of the current iteration
LoopBodyLine ==
  /\ pc = "loop" /\ loop.pos > 0
  /\ ~LineHangs(loop.body[loop.pos], variables, heap)
  /\ TakeResult(processLineOf(lines, loop.body[loop.pos], variables, output, heap))
  /\ loop' = IF loop.pos = Len(loop.body)
             THEN [loop EXCEPT !.iterIndex = @ + 1, !.pos = 0]
             ELSE [loop EXCEPT !.pos = @ + 1]
  /\ UNCHANGED <<code, pc, lines, i, builds, previous>>
  /\ UNCHANGED component

\* the end of the loop with a step that records no output
LoopEndWithoutOutput ==
  /\ pc = "loop" /\ loop.pos = 0
  /\ loop.iterIndex >= Len(Elements(loop.iterable, heap))
  /\ LET snap == DeepCopy(variables, heap)
     IN /\ steps' = Append(steps, [line |-> loop.line,
                                   action |-> "for_loop_end",
                                   iterVar |-> loop.iterVar,
                                   variables |-> snap.variables,
                                   output |-> <<>>])
        /\ heap' = snap.heap
  /\ i' = loop.next
  /\ loop' = NoLoop
  /\ pc' = "main"
  /\ UNCHANGED <<code, lines, variables, output, builds, previous>>
  /\ UNCHANGED component

\* after the last iteration: the for_loop_end step is pushed and the main
\* loop goes on behind the body (i = j - 1; continue)
LoopEnd ==
  /\ pc = "loop" /\ loop.pos = 0
  /\ loop.iterIndex >= Len(Elements(loop.iterable, heap))
  /\ LET snap == DeepCopy(variables, heap)
     IN /\ steps' = Append(steps, [line |-> loop.line,
                                   action |-> "for_loop_end",
                                   iterVar |-> loop.iterVar,
                                   variables |-> snap.variables,
                                   output |-> output])
        /\ heap' = snap.heap
  /\ i' = loop.next
  /\ loop' = NoLoop
  /\ pc' = "main"
  /\ UNCHANGED <<code, lines, variables, output, builds, previous>>
  /\ UNCHANGED component

\* a top-level def header that leaves the body to the main loop
MainDefRunsBody ==
  /\ pc = "main" /\ i < Len(lines)
  /\ ~IsSkipped(Current) /\ ~IsFor(Current) /\ IsDef(Current) /\ Current.stmt.k = "def"
  /\ LET j == BlockEnd(lines, i + 1, Current.indent)
         functionBody == BlockBody(lines, i + 1, j)
         closure == DeepCopy(variables, heap)
         func == Func(Current.stmt.name, Current.stmt.params, functionBody,
                      closure.variables)
         newVars == Bind(variables, Current.stmt.name, func)
         snap == DeepCopy(newVars, closure.heap)
     IN /\ variables' = newVars
        /\ steps' = Append(steps, [line |-> Current.originalIndex,
                                   action |-> "function_definition",
                                   functionName |-> Current.stmt.name,
                                   params |-> func.params,
                                   bodyLines |-> Len(functionBody),
                                   variables |-> snap.variables,
                                   output |-> output])
        /\ heap' = snap.heap
        /\ i' = i + 1
  /\ UNCHANGED <<code, pc, lines, output, loop, builds, previous>>
  /\ UNCHANGED component

\* a top-level def header: the function object is built with its body and
\* the body is skipped
MainDef ==
  /\ pc = "main" /\ i < Len(lines)
  /\ ~IsSkipped(Current) /\ ~IsFor(Current) /\ IsDef(Current) /\ Current.stmt.k = "def"
  /\ LET j == BlockEnd(lines, i + 1, Current.indent)
         functionBody == BlockBody(lines, i + 1, j)
         closure == DeepCopy(variables, heap)
         func == Func(Current.stmt.name, Current.stmt.params, functionBody,
                      closure.variables)
         newVars == Bind(variables, Current.stmt.name, func)
         snap == DeepCopy(newVars, closure.heap)
     IN /\ variables' = newVars
        /\ steps' = Append(steps, [line |-> Current.originalIndex,
                                   action |-> "function_definition",
                                   functionName |-> Current.stmt.name,
                                   params |-> func.params,
                                   bodyLines |-> Len(functionBody),
                                   variables |-> snap.variables,
                                   output |-> output])
        /\ heap' = snap.heap
        /\ i' = j
  /\ UNCHANGED <<code, pc, lines, output, loop, builds, previous>>
  /\ UNCHANGED component

\* any other line: const result = processLine(lines[i], variables, output, lines)
MainLine ==
  /\ pc = "main" /\ i < Len(lines)
  /\ ~IsSkipped(Current) /\ ~IsFor(Current) /\ ~IsDef(Current)
  /\ ~LineHangs(Current, variables, heap)
  /\ TakeResult(processLineOf(lines, Current, variables, output, heap))
  /\ i' = i + 1
  /\ UNCHANGED <<code, pc, lines, loop, builds, previous>>
  /\ UNCHANGED component

\* a line whose evaluation never returns: parseCode is never left, and no
\* handler of the component runs again
LineNeverReturns ==
  /\ \/ /\ pc = "main" /\ i < Len(lines)
        /\ ~IsSkipped(Current) /\ ~IsDef(Current)
        /\ LineHangs(Current, variables, heap)
     \/ /\ pc = "loop" /\ loop.pos > 0
        /\ LineHangs(loop.body[loop.pos], variables, heap)
  /\ pc' = "hung"
  /\ UNCHANGED <<code, lines, i, steps, variables, output, loop, heap, builds, previous>>
  /\ UNCHANGED component

\* return steps, and resetVisualization goes on with the trace
ParseReturn ==
  /\ pc = "main" /\ i >= Len(lines)
  /\ pc' = "done"
  /\ builds' = builds + 1
  /\ ResetDone(steps)
  /\ UNCHANGED <<code, lines, i, steps, variables, output, loop, heap, previous>>

----------------------------------------------------------------------------
(* The second parseCode and resetVisualization (lines 2100-2690) *)

\* const forMatch = trimmed.match(/for\s+(\w+)\s+in\s+(.*?):/) of a line that
\* starts with "for "
IsSecondForHeader(lineData) == IsFor(lineData) /\ lineData.stmt.k = "for"

\* safeEval(iterableExpr, variables) with the catch clause that takes the
\* empty array
SecondIterableValue(iterableExpr, env, h) ==
  LET Caught(r) == IF r.ok THEN r.v ELSE Fresh(<<>>)
  IN Caught(SecondSafeEval(iterableExpr, env, h))

\* resetVisualization of the second declaration starts parseCode
SecondParseStart ==
  /\ pc = "idle" \/ (pc \in {"done", "threw"} /\ builds < MaxBuilds)
  /\ pc' = "main"
  /\ lines' = Segment(code)
  /\ i' = 0
  /\ steps' = <<>>
  /\ variables' = EmptyEnv
  /\ output' = <<>>
  /\ error' = NoError
  /\ caller' = IF pc = "idle" THEN "mount" ELSE "reset"
  /\ UNCHANGED <<code, loop, heap, builds, previous, executionState,
                 executionInterval, timers>>

\* a top-level for header whose iterable is an array or a string: the body
\* is the run of lines that lie deeper than the header, and the
\* for_loop_start step is pushed
SecondMainFor ==
  /\ pc = "main" /\ i < Len(lines)
  /\ ~IsSkipped(Current) /\ IsSecondForHeader(Current)
  /\ LET j == DeeperEnd(lines, i + 1, Current.indent)
         loopBody == SubSeq(lines, i + 2, j)
         Start(st, snap) ==
           /\ steps' = Append(steps, [line |-> Current.originalIndex,
                                      action |-> "for_loop_start",
                                      iterVar |-> Current.stmt.var,
                                      iterable |-> st.v,
                                      loopBody |-> [k \in 1..Len(loopBody) |->
                                                      loopBody[k].originalIndex],
                                      variables |-> snap.variables,
                                      output |-> output])
           /\ heap' = snap.heap
           /\ loop' = [active |-> TRUE, line |-> Current.originalIndex,
                       iterVar |-> Current.stmt.var, iterable |-> st.v,
                       body |-> loopBody, next |-> j, iterIndex |-> 0, pos |-> 0]
         Stored(st) == Start(st, DeepCopy(variables, st.heap))
         Header(iterableValue) ==
           /\ IsIterable(iterableValue)
           /\ Stored(Store(iterableValue, heap))
     IN Header(SecondIterableValue(Current.stmt.e, variables, heap))
  /\ pc' = "loop"
  /\ UNCHANGED <<code, lines, i, variables, output, builds, previous>>
  /\ UNCHANGED component

\* for (const bodyLine of loopBody): one body line of the current iteration
SecondLoopBodyLine ==
  /\ pc = "loop" /\ loop.pos > 0
  /\ TakeResult(SecondProcessLine(loop.body[loop.pos], variables, output, heap))
  /\ loop' = IF loop.pos = Len(loop.body)
             THEN [loop EXCEPT !.iterIndex = @ + 1, !.pos = 0]
             ELSE [loop EXCEPT !.pos = @ + 1]
  /\ UNCHANGED <<code, pc, lines, i, builds, previous>>
  /\ UNCHANGED component

\* a top-level for header whose iterable is neither an array nor a string:
\* the Error leaves parseCode and resetVisualization reports it
SecondMainForThrow ==
  /\ pc = "main" /\ i < Len(lines)
  /\ ~IsSkipped(Current) /\ IsSecondForHeader(Current)
  /\ LET Thrown(iterableValue) ==
           /\ ~IsIterable(iterableValue)
           /\ ResetFailed("'" \o TypeOf(iterableValue) \o "' object is not iterable")
     IN Thrown(SecondIterableValue(Current.stmt.e, variables, heap))
  /\ pc' = "threw"
  /\ builds' = builds + 1
  /\ UNCHANGED <<code, lines, i, steps, variables, output, loop, heap, previous>>

\* { line, action, code, variables, output } of the two steps around a block
ControlStructure(kind, lineData, env, out) ==
  [line |-> lineData.originalIndex,
   action |-> kind,
   code |-> lineData.trimmed,
   variables |-> env,
   output |-> out]

\* if (trimmed.endsWith(':')): any other header.  The control_structure_start
\* step is pushed and processBlock(i + 1, indent) starts
SecondMainBlock ==
  /\ pc = "main" /\ i < Len(lines)
  /\ ~IsSkipped(Current) /\ ~IsSecondForHeader(Current)
  /\ EndsWith(Current.trimmed, ":")
  /\ LET Start(snap) ==
           /\ steps' = Append(steps, ControlStructure("control_structure_start", Current,
                                                      snap.variables, output))
           /\ heap' = snap.heap
     IN Start(DeepCopy(variables, heap))
  /\ loop' = [active |-> FALSE, header |-> Current, at |-> i + 1]
  /\ pc' = "block"
  /\ UNCHANGED <<code, lines, i, variables, output, builds, previous>>
  /\ UNCHANGED component

\* processBlock: while (i < lines.length && lines[i].indent > baseIndent)
\* one line goes through processLine
SecondBlockLine ==
  /\ pc = "block"
  /\ loop.at < Len(lines) /\ lines[loop.at + 1].indent > loop.header.indent
  /\ TakeResult(SecondProcessLine(lines[loop.at + 1], variables, output, heap))
  /\ loop' = [loop EXCEPT !.at = @ + 1]
  /\ UNCHANGED <<code, pc, lines, i, builds, previous>>
  /\ UNCHANGED component

\* processBlock returns: the control_structure_end step is pushed and the
\* main loop goes on behind the block (i = nextIndex - 1; continue)
SecondBlockEnd ==
  /\ pc = "block"
  /\ ~(loop.at < Len(lines) /\ lines[loop.at + 1].indent > loop.header.indent)
  /\ LET End(snap) ==
           /\ steps' = Append(steps, ControlStructure("control_structure_end", loop.header,
                                                      snap.variables, output))
           /\ heap' = snap.heap
     IN End(DeepCopy(variables, heap))
  /\ i' = loop.at
  /\ loop' = NoLoop
  /\ pc' = "main"
  /\ UNCHANGED <<code, lines, variables, output, builds, previous>>
  /\ UNCHANGED component

\* any other line: const result = processLine(lines[i], variables, output)
SecondMainLine ==
  /\ pc = "main" /\ i < Len(lines)
  /\ ~IsSkipped(Current) /\ ~IsSecondForHeader(Current)
  /\ ~EndsWith(Current.trimmed, ":")
  /\ TakeResult(SecondProcessLine(Current, variables, output, heap))
  /\ i' = i + 1
  /\ UNCHANGED <<code, pc, lines, loop, builds, previous>>
  /\ UNCHANGED component

\* return steps, and resetVisualization replaces the state, callStack
\* included
SecondParseReturn ==
  /\ pc = "main" /\ i >= Len(lines)
  /\ pc' = "done"
  /\ builds' = builds + 1
  /\ AfterReset([executionState EXCEPT
                   !.step = 0,
                   !.variables = EmptyEnv,
                   !.currentLine = IF Len(steps) > 0 THEN steps[1].line ELSE -1,
                   !.isRunning = FALSE,
                   !.executionSteps = steps,
                   !.output = <<>>,
                   !.callStack = <<>>],
                NoTimer, timers \ {executionInterval})
  /\ error' = error
  /\ UNCHANGED <<code, lines, i, steps, variables, output, loop, heap, previous>>

----------------------------------------------------------------------------
(* Playback: the handlers that read the trace *)

\* parseCode is not running: an event handler can run
Quiet == pc \in {"done", "threw"}

LastIndex(state) == Len(state.executionSteps) - 1

\* { ...prev, step: k, variables: stepData.variables || prev.variables,
\*   currentLine: stepData.line, output: stepData.output || prev.output }
ShowStep(prev, k) ==
  LET stepData == prev.executionSteps[k + 1]
  IN [prev EXCEPT
        !.step = k,
        !.variables = IF "variables" \in DOMAIN stepData
                      THEN stepData.variables ELSE prev.variables,
        !.currentLine = stepData.line,
        !.output = IF "output" \in DOMAIN stepData
                   THEN stepData.output ELSE prev.output]

\* nextStep that leaves playback running at the last step
nextStepStayingOn ==
  /\ IF executionState.step >= LastIndex(executionState)
     THEN UNCHANGED <<executionState, executionInterval, timers>>
     ELSE /\ executionState' = ShowStep(executionState, executionState.step + 1)
          /\ UNCHANGED <<executionInterval, timers>>
  /\ UNCHANGED <<code, pc, lines, i, steps, variables, output, loop, heap, builds,
                 previous, error, caller>>

\* nextStep: at the last step the interval timer is cleared and isRunning
\* becomes false; before it the next step is shown
nextStep ==
  /\ IF executionState.step >= LastIndex(executionState)
     THEN /\ executionState' = [executionState EXCEPT !.isRunning = FALSE]
          /\ executionInterval' = NoTimer
          /\ timers' = timers \ {executionInterval}
     ELSE /\ executionState' = ShowStep(executionState, executionState.step + 1)
          /\ UNCHANGED <<executionInterval, timers>>
  /\ UNCHANGED <<code, pc, lines, i, steps, variables, output, loop, heap, builds,
                 previous, error, caller>>

\* the Next Step button, disabled while running and at the last step
NextStepClick ==
  /\ Quiet
  /\ ~executionState.isRunning
  /\ executionState.step < LastIndex(executionState)
  /\ nextStep

\* a live interval timer fires: setInterval(nextStep, speed)
TimerTick ==
  /\ Quiet
  /\ timers # {}
  /\ nextStep

\* the function prevStep hands to setExecutionState:
\* if (prev.step <= 0) return prev; otherwise the step before is shown
PrevStepOf(prev) ==
  IF prev.step <= 0 THEN prev ELSE ShowStep(prev, prev.step - 1)

\* jumpToStep that shows the nearest step of the trace for an index outside
JumpToStepClamping(prev, stepIndex) ==
  IF prev.executionSteps = <<>> THEN prev
  ELSE IF stepIndex < 0 THEN ShowStep(prev, 0)
  ELSE IF stepIndex >= Len(prev.executionSteps) THEN ShowStep(prev, LastIndex(prev))
  ELSE ShowStep(prev, stepIndex)

\* the function jumpToStep hands to setExecutionState:
\* if (stepIndex < 0 || stepIndex >= prev.executionSteps.length) return prev
JumpToStepOf(prev, stepIndex) ==
  IF stepIndex < 0 \/ stepIndex >= Len(prev.executionSteps)
  THEN prev
  ELSE ShowStep(prev, stepIndex)

\* prevStep, behind the Previous Step button, disabled while running and at
\* step 0
prevStep ==
  /\ Quiet
  /\ ~executionState.isRunning
  /\ executionState.step > 0
  /\ executionState' = PrevStepOf(executionState)
  /\ UNCHANGED <<code, pc, lines, i, steps, variables, output, loop, heap, builds,
                 previous, error, executionInterval, timers, caller>>

\* jumpToStep(stepIndex), behind the step number field
jumpToStep(stepIndex) ==
  /\ Quiet
  /\ executionState' = JumpToStepOf(executionState, stepIndex)
  /\ UNCHANGED <<code, pc, lines, i, steps, variables, output, loop, heap, builds,
                 previous, error, executionInterval, timers, caller>>

JumpToStep ==
  \E stepIndex \in -1..Len(executionState.executionSteps) : jumpToStep(stepIndex)

\* togglePlay while running: the timer is cleared and isRunning becomes false
TogglePlayPause ==
  /\ Quiet
  /\ executionState.isRunning
  /\ executionState' = [executionState EXCEPT !.isRunning = FALSE]
  /\ executionInterval' = NoTimer
  /\ timers' = timers \ {executionInterval}
  /\ UNCHANGED <<code, pc, lines, i, steps, variables, output, loop, heap, builds,
                 previous, error, caller>>

\* togglePlay while paused before the last step: a timer is installed
TogglePlayStart ==
  /\ Quiet
  /\ ~executionState.isRunning
  /\ executionState.step < LastIndex(executionState)
  /\ StartPlaying(executionState, executionInterval, timers)
  /\ UNCHANGED <<code, pc, lines, i, steps, variables, output, loop, heap, builds,
                 previous, error, caller>>

\* togglePlay while paused at the last step: resetVisualization is called
\* first, and the timer is installed when it has returned
TogglePlayRestart ==
  /\ Quiet /\ builds < MaxBuilds
  /\ ~executionState.isRunning
  /\ executionState.step >= LastIndex(executionState)
  /\ BeginParse
  /\ error' = NoError
  /\ caller' = "play"
  /\ UNCHANGED <<code, heap, builds, executionState, executionInterval, timers>>

\* handleSpeedChange that installs the new timer and does not clear the old
handleSpeedChangeKeepingTimer ==
  /\ Quiet
  /\ IF executionState.isRunning
     THEN /\ executionInterval' = NewTimer(timers)
          /\ timers' = timers \cup {NewTimer(timers)}
     ELSE UNCHANGED <<executionInterval, timers>>
  /\ UNCHANGED <<code, pc, lines, i, steps, variables, output, loop, heap, builds,
                 previous, executionState, error, caller>>

\* handleSpeedChange, behind the speed slider: while playback is running the
\* interval timer is cleared and one with the new speed is installed
handleSpeedChange ==
  /\ Quiet
  /\ IF executionState.isRunning
     THEN /\ executionInterval' = NewTimer(timers)
          /\ timers' = (timers \ {executionInterval}) \cup {NewTimer(timers)}
     ELSE UNCHANGED <<executionInterval, timers>>
  /\ UNCHANGED <<code, pc, lines, i, steps, variables, output, loop, heap, builds,
                 previous, executionState, error, caller>>

\* the Dismiss button of the error message: setError(null)
DismissError ==
  /\ Quiet
  /\ error # NoError
  /\ error' = NoError
  /\ UNCHANGED <<code, pc, lines, i, steps, variables, output, loop, heap, builds,
                 previous, executionState, executionInterval, timers, caller>>

\* the text area: onChange={(e) => setCode(e.target.value)}
setCode(text) ==
  /\ Quiet
  /\ text # code
  /\ code' = text
  /\ UNCHANGED <<pc, lines, i, steps, variables, output, loop, heap, builds,
                 previous, executionState, error, executionInterval, timers, caller>>

\* toggleBreakpoint that also shows the first step
toggleBreakpointRewinding(lineIndex) ==
  /\ Quiet
  /\ executionState' =
       [executionState EXCEPT
          !.step = 0,
          !.breakpoints =
             IF \E k \in 1..Len(@) : @[k] = lineIndex
             THEN SelectSeq(@, LAMBDA bp : bp # lineIndex)
             ELSE Append(@, lineIndex)]
  /\ UNCHANGED <<code, pc, lines, i, steps, variables, output, loop, heap, builds,
                 previous, error, executionInterval, timers, caller>>

\* toggleBreakpoint(lineIndex): the line leaves the breakpoints when it is
\* among them and is added at the end when it is not
toggleBreakpoint(lineIndex) ==
  /\ Quiet
  /\ executionState' =
       [executionState EXCEPT
          !.breakpoints =
             IF \E k \in 1..Len(@) : @[k] = lineIndex
             THEN SelectSeq(@, LAMBDA bp : bp # lineIndex)
             ELSE Append(@, lineIndex)]
  /\ UNCHANGED <<code, pc, lines, i, steps, variables, output, loop, heap, builds,
                 previous, error, executionInterval, timers, caller>>

\* a click on a line of the rendered code:
\* onClick={() => toggleBreakpoint(index)}
ToggleBreakpoint ==
  \E lineIndex \in 0..(Len(code) - 1) :
    /\ lineIndex <= MaxBreakLine
    /\ toggleBreakpoint(lineIndex)

----------------------------------------------------------------------------
(* The source texts the model parses *)

Lits == 0..MaxLit
Top(stmt) == SrcLine(0, stmt)
In(stmt) == SrcLine(4, stmt)

\* all sequences over S of length 1..n
SeqsUpTo(S, n) == UNION {[1..m -> S] : m \in 1..n}

\* top-level statements on numbers and one list
StraightPool ==
  { Top(SAssign("x", ENum(1))),
    Top(SAssign("y", EBin("+", EName("x"), ENum(1)))),
    Top(SAssign("nums", EList(<<ENum(1), ENum(2)>>))),
    Top(SAssign("y", EName("nums"))),
    Top(SAug("x", "+", ENum(2))),
    Top(SListOp("nums", "append", <<ENum(3)>>)),
    Top(SListOp("nums", "append", <<EName("x")>>)),
    Top(SListOp("nums", "pop", <<>>)),
    Top(SPrint(<<EName("x"), EName("nums")>>)) }

StraightPrograms == SeqsUpTo(StraightPool, MaxLines)

\* x = a op b, and y = x op b with x bound to a
ArithPrograms ==
  { <<Top(SAssign("x", EBin(op, ENum(a), ENum(b))))>> :
      op \in {"//", "**", "+", "-", "*", "%"}, a \in Lits, b \in Lits }
  \cup
  { <<Top(SAssign("x", ENum(a))), Top(SAssign("y", EBin(op, EName("x"), ENum(b))))>> :
      op \in {"//", "**"}, a \in Lits, b \in Lits }

\* the lines before and after a top-level loop
LoopPrefix ==
  << Top(SAssign("total", ENum(0))),
     Top(SAssign("nums", EList(<<ENum(1), ENum(2), ENum(3)>>))),
     Top(SAssign("seen", EList(<<>>))) >>
LoopSuffix == << Top(SPrint(<<EStr("total:"), EName("total")>>)) >>

LoopHeaders ==
  { SFor("n", ECall("range", <<ENum(k)>>)) : k \in Lits }
  \cup { SFor("n", ECall("range", <<ENum(1), ENum(k)>>)) : k \in Lits }
  \cup { SFor("n", EName("nums")),
         SFor("n", EStr("ab")),
         SFor("n", EName("missing")),
         SFor("n", EName("total")),
         SFor("n", ENum(5)) }

LoopBodyPool ==
  { In(SPrint(<<EName("n")>>)),
    In(SAug("total", "+", EName("n"))),
    In(SListOp("seen", "append", <<EName("n")>>)),
    In(SListOp("nums", "pop", <<>>)),
    In(SListOp("total", "append", <<EName("n")>>)),
    In(SAssign("last", EName("n"))),
    SrcLine(0, SBlank),
    In(SComment("body")) }

LoopPrograms ==
  { LoopPrefix \o <<Top(h)>> \o body \o LoopSuffix :
      h \in LoopHeaders, body \in SeqsUpTo(LoopBodyPool, 2) }

\* def add(a, b): return a + b, called with 0..3 arguments
AddDef ==
  << Top(SDef("add", <<"a", "b">>)),
     In(SReturn(EBin("+", EName("a"), EName("b")))) >>

ArgLists == UNION {[1..m -> Lits] : m \in 0..3}

CallPrograms ==
  { AddDef \o <<Top(SAssign("r", ECall("add", [k \in 1..Len(args) |-> ENum(args[k])])))>> :
      args \in ArgLists }
  \cup
  { AddDef \o <<Top(SCall("add", [k \in 1..Len(args) |-> ENum(args[k])])),
                Top(SPrint(<<EStr("done")>>))>> :
      args \in ArgLists }

\* functions that read their closure, functions whose body is more than a
\* return line, and calls that cannot be made
ClosurePrograms ==
  { << Top(SAssign("k", ENum(c))),
       Top(SDef("scale", <<"a">>)),
       In(SReturn(EBin("*", EName("a"), EName("k")))),
       Top(SAssign("k", ENum(d))),
       Top(SAssign("r", ECall("scale", <<ENum(a)>>))) >> :
      c \in Lits, d \in Lits, a \in Lits }
  \cup
  { << Top(SDef("greet", <<"name">>)),
       In(SAssign("message", EBin("+", EStr("Hello, "), EName("name")))),
       In(SReturn(EName("message"))),
       Top(SAssign("greeting", ECall("greet", <<EStr("Bob")>>))),
       Top(SPrint(<<EName("greeting")>>)) >>,
     << Top(SDef("one", <<>>)),
       In(SReturn(ENum(1))),
       Top(SAssign("r", ECall("one", <<ENum(2)>>))),
       Top(SAssign("r", ECall("one", <<>>))) >>,
     << Top(SDef("nothing", <<"a">>)),
       Top(SAssign("r", ECall("nothing", <<ENum(1)>>))) >>,
     AddDef \o << Top(SAssign("r", ECall("add", <<EName("z"), ENum(1)>>))),
                  Top(SAssign("r", ECall("add", <<ENum(1)>>))),
                  Top(SPrint(<<EName("r")>>)) >>,
     << Top(SAssign("r", ECall("foo", <<ENum(1)>>))),
        Top(SCall("foo", <<ENum(1)>>)),
        Top(SAssign("n", ECall("len", <<EName("r")>>))) >>,
     << Top(SAssign("nums", EList(<<ENum(1), ENum(2)>>))),
        Top(SDef("get", <<>>)),
        In(SReturn(EName("nums"))),
        Top(SListOp("nums", "append", <<ENum(3)>>)),
        Top(SAssign("r", ECall("get", <<>>))),
        Top(SListOp("r", "append", <<ENum(0)>>)),
        Top(SAssign("s", ECall("get", <<>>))) >> }

\* functions whose body prints, goes on behind its return line, has no
\* return line, or holds a statement that fails
BodyPrograms ==
  { << Top(SDef("show", <<"a">>)),
       In(SPrint(<<EName("a")>>)),
       In(SReturn(EName("a"))),
       Top(SPrint(<<EStr("before")>>)),
       Top(SAssign("r", ECall("show", <<ENum(1)>>))),
       Top(SCall("show", <<ENum(2)>>)) >>,
    << Top(SDef("early", <<"a">>)),
       In(SReturn(EName("a"))),
       In(SPrint(<<EStr("late")>>)),
       Top(SAssign("r", ECall("early", <<ENum(1)>>))),
       Top(SCall("early", <<ENum(2)>>)) >>,
    << Top(SDef("log", <<"a">>)),
       In(SPrint(<<EName("a")>>)),
       Top(SAssign("r", ECall("log", <<ENum(1)>>))),
       Top(SCall("log", <<ENum(2)>>)) >>,
    << Top(SDef("bad", <<"a">>)),
       In(SListOp("a", "append", <<ENum(1)>>)),
       In(SReturn(EName("a"))),
       Top(SAssign("r", ECall("bad", <<ENum(1)>>))),
       Top(SCall("bad", <<ENum(1)>>)),
       Top(SPrint(<<EStr("after")>>)) >> }

\* if and while headers with their bodies, at the top level and inside the
\* body of a loop
GuardPrograms ==
  { << Top(SAssign("x", ENum(a))),
       Top(SIf(EBin(">", EName("x"), ENum(1)))),
       In(SAssign("y", ENum(5))),
       In(SPrint(<<EName("y")>>)),
       Top(SPrint(<<EName("x")>>)) >> : a \in Lits }
  \cup
  { << Top(SAssign("x", ENum(a))),
       Top(SWhile(EBin("<", EName("x"), ENum(2)))),
       In(SAug("x", "+", ENum(1))),
       In(SPrint(<<EName("x")>>)),
       Top(SPrint(<<EStr("end")>>)) >> : a \in Lits }
  \cup
  { << Top(SIf(EBin(">", EName("missing"), ENum(1)))),
       In(SAssign("y", ENum(1))) >>,
    << Top(SFor("n", ECall("range", <<ENum(3)>>))),
       In(SIf(EBin("==", EName("n"), ENum(1)))),
       SrcLine(8, SPrint(<<EName("n")>>)),
       Top(SPrint(<<EStr("end")>>)) >> }

\* list comprehensions over ranges, lists and strings, with and without a
\* condition
CompConditions(v) ==
  { EBin(">", EName(v), ENum(1)),
    EBin("<", EName(v), ENum(2)),
    EBin("==", EBin("%", EName(v), ENum(2)), ENum(0)),
    EBin("!=", EName(v), ENum(1)),
    EBin("<=", EName(v), ENum(1)),
    EBin(">=", EName(v), ENum(1)) }

CompPrograms ==
  { <<Top(SAssign("squares", EComp(EBin("**", EName("x"), ENum(2)), "x",
                                   ECall("range", <<ENum(k)>>)))),
      Top(SPrint(<<EName("squares")>>))>> : k \in Lits }
  \cup
  { <<Top(SAssign("picked", ECompIf(EName("x"), "x", ECall("range", <<ENum(k)>>), c))),
      Top(SPrint(<<EName("picked")>>))>> : k \in Lits, c \in CompConditions("x") }
  \cup
  { << Top(SAssign("nums", EList(<<ENum(1), ENum(2), ENum(3)>>))),
       Top(SAssign("doubled", EComp(EBin("*", EName("n"), ENum(2)), "n", EName("nums")))),
       Top(SAssign("n", ENum(0))),
       Top(SAssign("kept", ECompIf(EName("n"), "n", EName("nums"),
                                   EBin(">", EName("n"), ENum(1))))) >>,
     << Top(SAssign("chars", EComp(EName("c"), "c", EStr("ab")))) >>,
     << Top(SAssign("t", EComp(EName("v"), "v", EList(<<ENum(1), ENum(2)>>)))) >>,
     << Top(SAssign("t", EComp(EName("v"), "v", ENum(5)))),
        Top(SPrint(<<EStr("after")>>)) >>,
     << Top(SAssign("t", EComp(EBin("+", EName("v"), EName("w")), "v",
                               ECall("range", <<ENum(2)>>)))) >> }

\* comment lines and blank lines between top-level statements
SkipPrograms ==
  { << Top(SComment("start")),
       Top(SAssign("x", ENum(a))),
       SrcLine(0, SBlank),
       Top(SComment("show")),
       Top(SPrint(<<EName("x")>>)) >> : a \in Lits }
  \cup
  { << SrcLine(0, SBlank),
       Top(SAssign("nums", EList(<<ENum(1), ENum(2)>>))),
       Top(SComment("grow")),
       Top(SListOp("nums", "append", <<ENum(a)>>)),
       SrcLine(0, SBlank) >> : a \in Lits }

\* a for header inside the body of a top-level for, over a range and over a
\* number
NestedForPrograms ==
  { << Top(SFor("n", ECall("range", <<ENum(2)>>))),
       In(SFor("m", e)),
       SrcLine(8, SPrint(<<EName("n")>>)),
       Top(SPrint(<<EStr("end")>>)) >> : e \in {ENum(5), ECall("range", <<ENum(1)>>)} }

\* r = range(..) with one, two and three integer arguments, the step of
\* either sign
RangeArgs == (0 - 1)..MaxLit
RangeSteps == {0 - 2, 0 - 1, 1, 2}
RangeCalls ==
  { <<a>> : a \in RangeArgs }
  \cup { <<a, b>> : a \in RangeArgs, b \in RangeArgs }
  \cup { <<a, b, s>> : a \in RangeArgs, b \in RangeArgs, s \in RangeSteps }
RangePrograms ==
  { << Top(SAssign("r", ECall("range", [k \in 1..Len(args) |-> ENum(args[k])]))),
       Top(SPrint(<<EName("r")>>)) >> : args \in RangeCalls }

\* print lines whose text holds an "=" inside a string literal, a
\* comparison, a name that is not bound, and no argument
PrintPrograms ==
  { << Top(SAssign("x", ENum(1))),
       Top(SPrint(<<EStr("x ="), EName("x")>>)),
       Top(SPrint(<<EName("x")>>)) >>,
    << Top(SAssign("x", ENum(1))),
       Top(SPrint(<<EBin("==", EName("x"), ENum(1))>>)),
       Top(SPrint(<<EName("missing")>>)),
       Top(SPrint(<<>>)) >>,
    << Top(SFor("n", ECall("range", <<ENum(2)>>))),
       In(SPrint(<<EStr("n ="), EName("n")>>)) >> }

\* x = a followed by x op= b, for every operator
AugPrograms ==
  { << Top(SAssign("x", ENum(a))),
       Top(SAug("x", op, ENum(b))),
       Top(SPrint(<<EName("x")>>)) >> :
      op \in {"+", "-", "*", "/", "%"}, a \in RangeArgs, b \in Lits }

\* list methods on a name that is not bound, on a number and on a string,
\* remove of a value the list does not hold, extend with a value that is
\* not a list
ListFailurePool ==
  { SListOp(name, op, args) :
      name \in {"missing", "x", "s"},
      op \in {"append", "extend", "remove", "pop", "insert"},
      args \in {<<ENum(0), ENum(1)>>} }
  \cup { SListOp("x", "pop", <<>>),
         SListOp("x", "append", <<ENum(1)>>),
         SListOp("nums", "remove", <<ENum(5)>>),
         SListOp("nums", "remove", <<EName("s")>>),
         SListOp("nums", "remove", <<ENum(2)>>),
         SListOp("nums", "extend", <<ENum(3)>>),
         SListOp("nums", "extend", <<EName("x")>>),
         SListOp("nums", "extend", <<EStr("ab")>>),
         SListOp("nums", "extend", <<EList(<<ENum(3)>>)>>) }

ListFailurePrograms ==
  { << Top(SAssign("nums", EList(<<ENum(1), ENum(2)>>))),
       Top(SAssign("x", ENum(1))),
       Top(SAssign("s", EStr("ab"))),
       Top(stmt),
       Top(SPrint(<<EName("nums")>>)) >> : stmt \in ListFailurePool }

\* range with a step of 0, as a right-hand side, as the iterable of a
\* top-level for and in the body of a loop
ZeroStepPrograms ==
  { << Top(SAssign("r", ECall("range", <<ENum(a), ENum(b), ENum(0)>>))),
       Top(SPrint(<<EName("r")>>)) >> : a \in RangeArgs, b \in RangeArgs }
  \cup
  { << Top(SFor("n", ECall("range", <<ENum(a), ENum(1), ENum(0)>>))),
       In(SPrint(<<EName("n")>>)),
       Top(SPrint(<<EStr("done")>>)) >> : a \in RangeArgs }
  \cup
  { << Top(SFor("n", ECall("range", <<ENum(2)>>))),
       In(SAssign("r", ECall("range", <<EName("n"), ENum(0), ENum(0)>>))),
       Top(SPrint(<<EStr("done")>>)) >> }

\* a dict literal with two keys
Stock == EDict(<<[k |-> "a", v |-> ENum(1)], [k |-> "b", v |-> ENum(2)]>>)

\* n = len(x) with x bound to a number, a boolean, None, a list, a string, a
\* dict and a function
LenPrograms ==
  { << Top(SAssign("x", e)),
       Top(SAssign("n", ECall("len", <<EName("x")>>))),
       Top(SPrint(<<EName("n")>>)) >> :
      e \in {ENum(a) : a \in Lits}
            \cup {ELit("True"), ELit("None"), EList(<<>>), EList(<<ENum(1), ENum(2)>>),
                  EStr(""), EStr("ab"), Stock} }
  \cup
  { << Top(SDef("x", <<"a">>)),
       In(SReturn(EName("a"))),
       Top(SAssign("n", ECall("len", <<EName("x")>>))),
       Top(SPrint(<<EName("n")>>)) >> }

\* the texts the editor holds while the trace is played back: a straight
\* text with a list, a short text, a text without statements, a text whose
\* top-level for cannot iterate, a loop, and a function
PlaybackPrograms ==
  { << Top(SAssign("x", ENum(1))),
       Top(SAssign("nums", EList(<<ENum(1), ENum(2)>>))),
       Top(SListOp("nums", "append", <<EName("x")>>)),
       Top(SPrint(<<EName("x"), EName("nums")>>)) >>,
    << Top(SAssign("x", ENum(2))) >>,
    << Top(SComment("nothing to run")) >>,
    << Top(SAssign("total", ENum(0))),
       Top(SFor("n", ENum(5))),
       In(SPrint(<<EName("n")>>)) >>,
    << Top(SFor("n", ECall("range", <<ENum(2)>>))),
       In(SPrint(<<EName("n")>>)) >>,
    << Top(SPrint(<<EStr("start")>>)) >> \o AddDef
       \o << Top(SAssign("r", ECall("add", <<ENum(1), ENum(2)>>))) >>,
    << Top(SAssign("r", ECall("range", <<ENum(1), ENum(0), ENum(0)>>))) >> }

\* an assignment whose dict or list literal spans several lines: closed as
\* it should be, with a comma behind the last entry, and never closed
MultiLinePrograms ==
  { << Top(SAssign("student", ERaw("{"))),
       In(SEntry("name", EStr("Alice"), TRUE)),
       In(SEntry("age", ENum(2), FALSE)),
       Top(SOther("}")),
       Top(SPrint(<<EName("student")>>)) >>,
    << Top(SAssign("nums", ERaw("["))),
       In(SItem(ENum(1), TRUE)),
       In(SItem(ENum(2), FALSE)),
       Top(SOther("]")),
       Top(SAssign("n", ECall("len", <<EName("nums")>>))) >>,
    << Top(SAssign("student", ERaw("{"))),
       In(SEntry("age", ENum(2), TRUE)),
       Top(SOther("}")) >>,
    << Top(SAssign("x", ENum(1))),
       Top(SAssign("student", ERaw("{"))),
       In(SEntry("age", ENum(2), FALSE)) >> }

Programs ==
  StraightPrograms \cup ArithPrograms \cup LoopPrograms \cup CallPrograms
  \cup ClosurePrograms \cup CompPrograms \cup SkipPrograms \cup BodyPrograms
  \cup GuardPrograms \cup NestedForPrograms \cup RangePrograms
  \cup PrintPrograms \cup AugPrograms \cup ListFailurePrograms \cup LenPrograms
  \cup ZeroStepPrograms \cup MultiLinePrograms

----------------------------------------------------------------------------
(* The specification *)

InitWith(texts) ==
  /\ code \in texts
  /\ pc = "idle"
  /\ lines = <<>>
  /\ i = 0
  /\ steps = <<>>
  /\ variables = EmptyEnv
  /\ output = <<>>
  /\ loop = NoLoop
  /\ heap = <<>>
  /\ builds = 0
  /\ previous = <<>>
  /\ executionState = [step |-> 0, variables |-> EmptyEnv, currentLine |-> -1,
                       isRunning |-> FALSE, executionSteps |-> <<>>, output |-> <<>>,
                       callStack |-> <<>>, breakpoints |-> <<>>]
  /\ error = NoError
  /\ executionInterval = NoTimer
  /\ timers = {}
  /\ caller = "none"

Init == InitWith(Programs)

Next ==
  \/ ParseStart
  \/ MainSkip
  \/ MainFor
  \/ MainForThrow
  \/ LoopIteration
  \/ LoopBodyLine
  \/ LoopEnd
  \/ MainDef
  \/ MainLine
  \/ LineNeverReturns
  \/ ParseReturn

Spec == Init /\ [][Next]_vars

\* the component with its playback handlers and its editor
PlaybackInit == InitWith(PlaybackPrograms)

PlaybackNext ==
  \/ Next
  \/ NextStepClick
  \/ TimerTick
  \/ prevStep
  \/ JumpToStep
  \/ TogglePlayPause
  \/ TogglePlayStart
  \/ TogglePlayRestart
  \/ DismissError
  \/ handleSpeedChange
  \/ \E text \in PlaybackPrograms : setCode(text)

PlaybackSpec == PlaybackInit /\ [][PlaybackNext]_vars

\* the component with its playback handlers and its breakpoints, the text
\* in the editor left as it is
BreakpointNext ==
  \/ Next
  \/ NextStepClick
  \/ TimerTick
  \/ prevStep
  \/ JumpToStep
  \/ TogglePlayPause
  \/ TogglePlayStart
  \/ TogglePlayRestart
  \/ DismissError
  \/ ToggleBreakpoint

BreakpointSpec == PlaybackInit /\ [][BreakpointNext]_vars

\* the component left to its timer: the user steps, jumps, resets and
\* presses Play only while playback is not running, and the interval timer
\* keeps firing while it is installed
AutoPlayNext ==
  \/ ~executionState.isRunning /\ ParseStart
  \/ MainSkip
  \/ MainFor
  \/ MainForThrow
  \/ LoopIteration
  \/ LoopBodyLine
  \/ LoopEnd
  \/ MainDef
  \/ MainLine
  \/ LineNeverReturns
  \/ ParseReturn
  \/ NextStepClick
  \/ prevStep
  \/ ~executionState.isRunning /\ JumpToStep
  \/ TogglePlayStart
  \/ TogglePlayRestart
  \/ TimerTick

AutoPlaySpec == PlaybackInit /\ [][AutoPlayNext]_vars /\ WF_vars(TimerTick)

----------------------------------------------------------------------------
(* The second declaration of the component as a state machine *)

\* dicts with pop and get of a key held and of a key not held, with and
\* without a default; the headers the second main loop handles itself
SecondDictCalls ==
  { SListOp("d", op, args) :
      op \in {"pop", "get"},
      args \in {<<EStr("a")>>, <<EStr("z")>>, <<EStr("a"), ENum(0)>>,
                <<EStr("z"), ENum(0)>>, <<EName("missing")>>} }
  \cup { SListOp("d", "keys", <<>>), SListOp("d", "values", <<>>),
         SListOp("d", "items", <<>>), SListOp("n", "get", <<EStr("a")>>) }

SecondPrograms ==
  { << Top(SComment("inventory")),
       Top(SAssign("d", Stock)),
       Top(SAssign("n", ENum(1))),
       Top(call),
       Top(SPrint(<<EName("d")>>)) >> : call \in SecondDictCalls }
  \cup
  { << Top(SAssign("x", ENum(a))),
       Top(SIf(EBin(">", EName("x"), ENum(0)))),
       In(SAug("x", "-", ENum(1))),
       In(SPrint(<<EStr("x:"), EName("x")>>)),
       Top(SPrint(<<EName("x")>>)) >> : a \in Lits }
  \cup
  { << Top(SAssign("nums", EList(<<ENum(1), ENum(2)>>))),
       Top(SFor("n", e)),
       In(SListOp("nums", "pop", <<>>)),
       Top(SDef("show", <<"v">>)),
       In(SPrint(<<EName("v")>>)),
       Top(SCall(f, <<ENum(a)>>)) >> :
      e \in {EName("nums"), ECall("range", <<ENum(2)>>), ENum(5), EStr("ab")},
      f \in {"show", "hide"}, a \in Lits }
  \cup
  { << Top(SAssign("x", ENum(a))),
       Top(SWhile(EBin("<", EName("x"), ENum(1)))),
       In(SAug("x", "+", ENum(1))),
       Top(SBlank),
       Top(SAug("x", "-", ENum(1))),
       Top(SOther("pass")) >> : a \in Lits }

SecondInit ==
  /\ code \in SecondPrograms
  /\ pc = "idle"
  /\ lines = <<>>
  /\ i = 0
  /\ steps = <<>>
  /\ variables = EmptyEnv
  /\ output = <<>>
  /\ loop = NoLoop
  /\ heap = <<>>
  /\ builds = 0
  /\ previous = <<>>
  /\ executionState = [step |-> 0, variables |-> EmptyEnv, currentLine |-> -1,
                       isRunning |-> FALSE, executionSteps |-> <<>>, output |-> <<>>,
                       callStack |-> <<>>, breakpoints |-> <<>>]
  /\ error = NoError
  /\ executionInterval = NoTimer
  /\ timers = {}
  /\ caller = "none"

SecondNext ==
  \/ SecondParseStart
  \/ MainSkip
  \/ SecondMainFor
  \/ SecondMainForThrow
  \/ LoopIteration
  \/ SecondLoopBodyLine
  \/ LoopEnd
  \/ SecondMainBlock
  \/ SecondBlockLine
  \/ SecondBlockEnd
  \/ SecondMainLine
  \/ SecondParseReturn

SecondSpec == SecondInit /\ [][SecondNext]_vars

----------------------------------------------------------------------------
(* Properties of the trace *)

\* the addresses of the arrays a value reaches
RECURSIVE Addresses(_, _)
Addresses(v, h) ==
  IF IsArray(v)
  THEN LET items == Items(v, h)
       IN (IF IsRef(v) THEN {v.a} ELSE {})
          \cup UNION {Addresses(items[k], h) : k \in 1..Len(items)}
  ELSE IF IsFunc(v)
  THEN UNION {Addresses(v.closure[n], h) : n \in DOMAIN v.closure}
  ELSE {}

EnvAddresses(env, h) == UNION {Addresses(env[n], h) : n \in DOMAIN env}

\* the arrays the interpreter can still change: those of the environment
\* and the one the running loop iterates
LiveAddresses(env, lp, h) ==
  EnvAddresses(env, h) \cup (IF lp.active THEN Addresses(lp.iterable, h) ELSE {})

\* no snapshot of trace shares an array with another snapshot or with the
\* arrays the interpreter can still change
SnapshotsDisjoint(trace, env, lp, h) ==
  \A k \in 1..Len(trace) :
    /\ EnvAddresses(trace[k].variables, h) \cap LiveAddresses(env, lp, h) = {}
    /\ \A j \in 1..Len(trace) :
         j # k => EnvAddresses(trace[k].variables, h)
                    \cap EnvAddresses(trace[j].variables, h) = {}

\* the steps recorded so far show the same variables and output after the
\* transition as before it
SnapshotsFrozen ==
  \A k \in 1..Len(steps) :
    k <= Len(steps') =>
      /\ ResolveEnv(steps'[k].variables, heap') = ResolveEnv(steps[k].variables, heap)
      /\ steps'[k].output = steps[k].output

\* C1: the variables and output of a recorded step are an independent
\* snapshot: no two steps share an array with each other or with the live
\* environment, and nothing executed later changes what a recorded step shows.
SnapshotsSelfContained ==
  [][/\ SnapshotsDisjoint(steps', variables', loop', heap')
     /\ (steps' # <<>> => SnapshotsFrozen)]_vars

\* a list was appended to or popped after a step had recorded it: the step
\* still shows the old list, the environment the new one
SnapshotOutlivesMutation ==
  /\ Len(steps) >= 2
  /\ steps[Len(steps)].action = "list_operation"
  /\ \E k \in 1..(Len(steps) - 1) :
       /\ Bound(steps[k].variables, "nums") /\ Bound(variables, "nums")
       /\ IsArray(variables["nums"])
       /\ ResolveValue(steps[k].variables["nums"], heap)
            # ResolveValue(variables["nums"], heap)

\* C10: a second call of parseCode on the same text returns the same trace,
\* step by step: same lines, actions, variables, output and fields.
RebuildIsDeterministic ==
  (pc = "done" /\ builds >= 2) => ResolveTrace(steps, heap) = previous

\* the second build of a text that produced list operations has returned
RebuiltWithLists ==
  /\ pc = "done" /\ builds >= 2
  /\ \E k \in 1..Len(steps) : steps[k].action = "list_operation"
  /\ \E k \in 1..Len(steps) : steps[k].action = "reassign"

----------------------------------------------------------------------------
(* Properties of one line *)

\* parseCode is about to process a line that is not skipped
IsProcessing ==
  \/ pc = "main" /\ i < Len(lines) /\ ~IsSkipped(Current)
  \/ pc = "loop" /\ loop.pos > 0 /\ ~IsSkipped(loop.body[loop.pos])

\* that line
ProcessedLine == IF pc = "loop" THEN loop.body[loop.pos] ELSE Current

\* the transition pushed exactly one step
PushedOne == Len(steps') = Len(steps) + 1
NewStep == steps'[Len(steps')]

\* the snapshot of the step before the transition
PreviousSnapshot == IF steps = <<>> THEN EmptyEnv ELSE steps[Len(steps)].variables

\* the environment is the same after the transition as before it
EnvironmentKept == ResolveEnv(variables', heap') = ResolveEnv(variables, heap)

Min(a, b) == IF a < b THEN a ELSE b

\* the names an expression reads
RECURSIVE FreeNames(_)
FreeNames(x) ==
  IF x.e = "name" THEN {x.id}
  ELSE IF x.e = "bin" THEN FreeNames(x.l) \cup FreeNames(x.r)
  ELSE IF x.e = "list" THEN UNION {FreeNames(x.items[k]) : k \in 1..Len(x.items)}
  ELSE IF x.e = "call"
  THEN (IF x.f \in {"range", "len", "print"} THEN {} ELSE {x.f})
       \cup UNION {FreeNames(x.args[k]) : k \in 1..Len(x.args)}
  ELSE IF x.e = "comp"
  THEN FreeNames(x.iter)
       \cup ((FreeNames(x.expr) \cup (IF x.hasCond THEN FreeNames(x.cond) ELSE {}))
             \ {x.var})
  ELSE {}

\* the body lines of a loop that push a step each time they are processed
SteppingLines(body) == SelectSeq(body, LAMBDA ln : ~IsSkipped(lines[ln + 1]))

\* the steps from the for_loop_start step at position s on: n groups of one
\* iteration step and the steps of the body lines, then the for_loop_end
\* step, and behind it no step of the header or of a body line
UnrolledFrom(s) ==
  LET start == steps[s]
      header == lines[start.line + 1]
      elements == Elements(IterableValue(header.stmt.e, start.variables, heap), heap)
      n == Len(elements)
      bodyLines == SteppingLines(start.loopBody)
      m == Len(bodyLines)
      end == s + n * (m + 1) + 1
  IN /\ end <= Len(steps)
     /\ steps[end].action = "for_loop_end" /\ steps[end].line = start.line
     /\ \A k \in 0..(n - 1) :
          LET p == s + 1 + k * (m + 1)
              item == ResolveValue(elements[k + 1], heap)
          IN /\ steps[p].action = "for_loop_iteration"
             /\ steps[p].line = start.line
             /\ steps[p].iterationIndex = k
             /\ steps[p].totalIterations = n
             /\ ResolveValue(steps[p].currentValue, heap) = item
             /\ Bound(steps[p].variables, header.stmt.var)
             /\ ResolveValue(steps[p].variables[header.stmt.var], heap) = item
             /\ \A b \in 1..m : steps[p + b].line = bodyLines[b]
     /\ \A t \in (end + 1)..Len(steps) :
          /\ steps[t].line # start.line
          /\ \A b \in 1..Len(start.loopBody) : steps[t].line # start.loopBody[b]

\* C2: a top-level for loop over an iterable of length n is recorded as one
\* for_loop_start step, n groups of (one for_loop_iteration step with
\* iterationIndex k, currentValue the k-th element, totalIterations n and the
\* loop variable bound to that element, then the steps of the body lines in
\* source order), and one for_loop_end step; the body lines are not
\* processed again after the loop.
LoopIsUnrolled ==
  pc = "done" =>
    \A s \in 1..Len(steps) :
      (steps[s].action = "for_loop_start" /\ "loopBody" \in DOMAIN steps[s])
        => UnrolledFrom(s)

\* C3: an assignment whose right-hand side reads a name that is not bound
\* records an error step, leaves the environment as it was and does not
\* bind the target.
UnboundNameIsAnError ==
  [][(/\ IsProcessing
      /\ ProcessedLine.stmt.k = "assign"
      /\ ~(FreeNames(ProcessedLine.stmt.e) \subseteq DOMAIN variables))
     => /\ PushedOne
        /\ NewStep.action = "error"
        /\ NewStep.line = ProcessedLine.originalIndex
        /\ EnvironmentKept]_vars

\* processing the line throws: the try block of processLine, or the header
\* of a top-level for whose iterable is neither a list nor a string
LineFails ==
  IF pc = "main" /\ IsFor(ProcessedLine)
  THEN ~IsIterable(IterableValue(ProcessedLine.stmt.e, variables, heap))
  ELSE IF pc = "main" /\ IsDef(ProcessedLine)
  THEN FALSE
  ELSE ~TryBlock(ProcessedLine, variables, output, heap).ok

\* C4: when processing a line fails, exactly one error step is recorded for
\* that line, its variables and output are those from just before the line,
\* the same environment and output go on to the next line, and the build
\* goes on with the later lines.
FailureIsOneErrorStep ==
  [][(IsProcessing /\ LineFails)
     => /\ PushedOne
        /\ NewStep.action = "error"
        /\ NewStep.line = ProcessedLine.originalIndex
        /\ ResolveEnv(NewStep.variables, heap') = ResolveEnv(PreviousSnapshot, heap)
        /\ NewStep.output = output
        /\ EnvironmentKept
        /\ output' = output
        /\ pc' # "threw"]_vars

\* the bindings other than name are in the new step what they were in the
\* step before
OthersKept(name) ==
  /\ DOMAIN NewStep.variables \ {name} = DOMAIN PreviousSnapshot \ {name}
  /\ \A n \in DOMAIN PreviousSnapshot \ {name} :
       ResolveValue(NewStep.variables[n], heap') = ResolveValue(PreviousSnapshot[n], heap)

\* C5: a plain assignment records an assign step exactly when the name was
\* not bound before and a reassign step with oldValue the value bound just
\* before otherwise; the variables of the step bind the name to the value of
\* the step and every other binding is as in the previous step.
AssignmentIsRecorded ==
  [][(/\ IsProcessing /\ PushedOne
      /\ NewStep.action \in {"assign", "reassign"})
     => LET name == NewStep.variable
        IN /\ (NewStep.action = "assign") <=> ~Bound(variables, name)
           /\ NewStep.action = "reassign" =>
                ResolveValue(NewStep.oldValue, heap') = ResolveValue(variables[name], heap)
           /\ Bound(NewStep.variables, name)
           /\ ResolveValue(NewStep.variables[name], heap') = ResolveValue(NewStep.value, heap')
           /\ OthersKept(name)]_vars

\* the function a line calls has a body of one return line
SingleReturn(f) ==
  /\ Bound(variables, f) /\ IsFunc(variables[f])
  /\ Len(variables[f].body) = 1
  /\ variables[f].body[1].stmt.k = "return"

\* the scope of a call: the closure, with parameter i bound to argument i
\* for the positions that have both
CallScope(func, argv) ==
  LET paired == 1..Min(Len(func.params), Len(argv))
      positions(x) == {q \in paired : func.params[q] = x}
  IN [x \in DOMAIN func.closure \cup {func.params[q] : q \in paired} |->
        IF positions(x) # {}
        THEN argv[CHOOSE q \in positions(x) : \A o \in positions(x) : o <= q]
        ELSE func.closure[x]]

\* C6: for a function whose body is a single return line, r = f(a1..an)
\* binds parameter i to argument i where both exist, in a scope built from
\* the closure of the function, and binds r to the value of the returned
\* expression in that scope; when that expression cannot be evaluated the
\* line records an error step and binds nothing.
CallBindsReturnValue ==
  [][(/\ IsProcessing
      /\ ProcessedLine.stmt.k = "assign"
      /\ ProcessedLine.stmt.e.e = "call"
      /\ SingleReturn(ProcessedLine.stmt.e.f)
      /\ \A k \in 1..Len(ProcessedLine.stmt.e.args) :
           safeEval(ProcessedLine.stmt.e.args[k], variables, heap).ok)
     => LET call == ProcessedLine.stmt.e
            func == variables[call.f]
            argv == [k \in 1..Len(call.args) |-> safeEval(call.args[k], variables, heap).v]
            returned == safeEval(func.body[1].stmt.e, CallScope(func, argv), heap)
            r == ProcessedLine.stmt.name
        IN /\ PushedOne
           /\ IF returned.ok
              THEN /\ NewStep.action \in {"assign", "reassign"}
                   /\ NewStep.variable = r
                   /\ Bound(variables', r)
                   /\ ResolveValue(variables'[r], heap') = ResolveValue(returned.v, heap)
                   /\ ResolveValue(NewStep.variables[r], heap')
                        = ResolveValue(returned.v, heap)
              ELSE /\ NewStep.action = "error"
                   /\ EnvironmentKept]_vars

\* r = add(2, 3) has bound r to 5
AddReturnedFive ==
  \E k \in 1..Len(steps) :
    /\ steps[k].action = "assign" /\ steps[k].variable = "r"
    /\ steps[k].expression = "add(2, 3)"
    /\ steps[k].variables["r"] = Num(5)
    /\ variables["r"] = Num(5)

\* the list a comprehension denotes: the value of its expression for every
\* element of els that passes its condition
RECURSIVE Comprehend(_, _, _, _, _, _)
Comprehend(c, env, h, els, k, acc) ==
  IF k > Len(els) THEN acc
  ELSE LET scope == Bind(env, c.var, els[k])
           keep == ~c.hasCond \/ Truthy(safeEval(c.cond, scope, h).v)
       IN Comprehend(c, env, h, els, k + 1,
                     IF keep
                     THEN Append(acc, ResolveValue(safeEval(c.expr, scope, h).v, h))
                     ELSE acc)

\* the iterable of a comprehension is a list or a string, and its condition
\* and expression have a value for every element
Comprehensible(c, env, h) ==
  /\ safeEval(c.iter, env, h).ok
  /\ IsIterable(safeEval(c.iter, env, h).v)
  /\ LET els == Elements(safeEval(c.iter, env, h).v, h)
     IN \A k \in 1..Len(els) :
          LET scope == Bind(env, c.var, els[k])
          IN /\ c.hasCond => safeEval(c.cond, scope, h).ok
             /\ safeEval(c.expr, scope, h).ok

\* C7: name = [expr for var in iterable] binds name to the list of the
\* values of expr for each element, in order; with "if cond" only the
\* elements for which cond is truthy contribute; the comprehension variable
\* is not bound by the line.
ComprehensionBindsList ==
  [][(/\ IsProcessing
      /\ ProcessedLine.stmt.k = "assign"
      /\ ProcessedLine.stmt.e.e = "comp"
      /\ Comprehensible(ProcessedLine.stmt.e, variables, heap))
     => LET c == ProcessedLine.stmt.e
            name == ProcessedLine.stmt.name
            els == Elements(safeEval(c.iter, variables, heap).v, heap)
        IN /\ PushedOne
           /\ NewStep.action \in {"assign", "reassign"}
           /\ Bound(variables', name)
           /\ IsArray(variables'[name])
           /\ ResolveValue(variables'[name], heap').items
                = Comprehend(c, variables, heap, els, 1, <<>>)
           /\ c.var # name =>
                /\ Bound(variables', c.var) <=> Bound(variables, c.var)
                /\ Bound(variables, c.var) =>
                     ResolveValue(variables'[c.var], heap')
                       = ResolveValue(variables[c.var], heap)]_vars

\* an operand of x = a op b that is an integer: a literal, or a name bound
\* to a number
IntegerOperand(x) ==
  \/ x.e = "num"
  \/ x.e = "name" /\ Bound(variables, x.id) /\ IsNum(variables[x.id])
OperandValue(x) == IF x.e = "num" THEN x.n ELSE variables[x.id].n

\* C8: x = a // b binds x to the floor of a / b and x = a ** b binds x to a
\* to the power b, for integer operands, and the evaluator gives the same
\* value for the expression on its own.
FloorDivisionAndPower ==
  [][(/\ IsProcessing
      /\ ProcessedLine.stmt.k = "assign"
      /\ ProcessedLine.stmt.e.e = "bin"
      /\ ProcessedLine.stmt.e.op \in {"//", "**"}
      /\ IntegerOperand(ProcessedLine.stmt.e.l)
      /\ IntegerOperand(ProcessedLine.stmt.e.r)
      /\ ProcessedLine.stmt.e.op = "//" => OperandValue(ProcessedLine.stmt.e.r) # 0)
     => LET x == ProcessedLine.stmt.e
            a == OperandValue(x.l)
            b == OperandValue(x.r)
            expected == IF x.op = "//" THEN Num(a \div b) ELSE Num(Pow(a, b))
        IN /\ safeEval(x, variables, heap) = Ok(expected)
           /\ PushedOne
           /\ NewStep.action \in {"assign", "reassign"}
           /\ Bound(variables', ProcessedLine.stmt.name)
           /\ variables'[ProcessedLine.stmt.name] = expected]_vars

\* C9: name.append(v) on a list L records one list_operation step whose
\* oldValue is L as it was and whose variables bind name to L followed by v,
\* every other binding as before, with an operationResult that mentions v;
\* name.pop() removes exactly the last element and reports it as the
\* removed element.
AppendAndPop ==
  [][(/\ IsProcessing
      /\ ProcessedLine.stmt.k = "listop"
      /\ Bound(variables, ProcessedLine.stmt.name)
      /\ IsRef(variables[ProcessedLine.stmt.name])
      /\ \/ /\ ProcessedLine.stmt.op = "append"
            /\ Len(ProcessedLine.stmt.args) = 1
            /\ safeEval(ProcessedLine.stmt.args[1], variables, heap).ok
         \/ /\ ProcessedLine.stmt.op = "pop"
            /\ ProcessedLine.stmt.args = <<>>
            /\ heap[variables[ProcessedLine.stmt.name].a] # <<>>)
     => LET name == ProcessedLine.stmt.name
            L == ResolveValue(variables[name], heap).items
        IN /\ PushedOne
           /\ NewStep.action = "list_operation"
           /\ ResolveValue(NewStep.oldValue, heap').items = L
           /\ Bound(NewStep.variables, name)
           /\ IsArray(NewStep.variables[name])
           /\ OthersKept(name)
           /\ IF ProcessedLine.stmt.op = "append"
              THEN LET v == safeEval(ProcessedLine.stmt.args[1], variables, heap).v
                   IN /\ ResolveValue(NewStep.variables[name], heap').items
                           = Append(L, ResolveValue(v, heap))
                      /\ Includes(NewStep.operationResult, __repr(v, heap))
              ELSE /\ ResolveValue(NewStep.variables[name], heap').items
                        = SubSeq(L, 1, Len(L) - 1)
                   /\ ResolveValue(NewStep.resultValue, heap') = L[Len(L)]]_vars

----------------------------------------------------------------------------
(* Properties of playback and of the life of the trace *)

\* the step the playback state points at
ShownStep == executionState.executionSteps[executionState.step + 1]

\* C11: in every state with a non-empty trace the variables, output and
\* current line on display are those of executionSteps[step], whichever
\* handler moved the index there.
PlaybackReadsTrace ==
  executionState.executionSteps # <<>> =>
    /\ executionState.step \in 0..LastIndex(executionState)
    /\ executionState.variables = ShownStep.variables
    /\ executionState.output = ShownStep.output
    /\ executionState.currentLine = ShownStep.line

\* C12: the trace held by the playback state follows the text of the
\* editor: whenever a handler can run, every step of the trace names a line
\* of the current source text.
TraceFollowsText ==
  Quiet =>
    \A k \in 1..Len(executionState.executionSteps) :
      executionState.executionSteps[k].line \in 0..(Len(code) - 1)

\* the part of the playback state that shows the trace
Shown(state) ==
  <<state.executionSteps, state.step, state.variables, state.output, state.currentLine>>

\* C13: a build that throws leaves executionSteps, step, variables, output
\* and currentLine as they were and sets the error message; a build that
\* returns replaces executionSteps by the whole new trace and sets step to
\* 0; while a build is under way the playback state does not change.
TraceReplacedAtomically ==
  [][/\ (pc = "main" /\ pc' = "threw") =>
          /\ Shown(executionState') = Shown(executionState)
          /\ error' # NoError
     /\ (pc = "main" /\ pc' = "done") =>
          /\ i >= Len(lines)
          /\ executionState'.executionSteps = steps
          /\ executionState'.step = 0
          /\ error' = NoError
     /\ pc' \in {"main", "loop"} => executionState' = executionState]_vars

\* a build has failed while a trace built from an earlier text is held
FailedBuildKeptTrace ==
  /\ pc = "threw"
  /\ error # NoError
  /\ executionState.executionSteps # <<>>
  /\ executionState.step > 0

----------------------------------------------------------------------------
(* Properties of function bodies *)

\* the line being processed calls a function that is bound, as the right
\* side of an assignment or as a statement of its own, and its arguments
\* have values
CallsFunction ==
  /\ IsProcessing
  /\ \/ ProcessedLine.stmt.k = "assign" /\ ProcessedLine.stmt.e.e = "call"
     \/ ProcessedLine.stmt.k = "call"
  /\ LET call == IF ProcessedLine.stmt.k = "call" THEN ProcessedLine.stmt
                 ELSE ProcessedLine.stmt.e
         f == IF ProcessedLine.stmt.k = "call" THEN call.name ELSE call.f
     IN /\ Bound(variables, f) /\ IsFunc(variables[f])
        /\ \A k \in 1..Len(call.args) : safeEval(call.args[k], variables, heap).ok

CalledFunction ==
  variables[IF ProcessedLine.stmt.k = "call" THEN ProcessedLine.stmt.name
            ELSE ProcessedLine.stmt.e.f]

CallArguments ==
  LET args == IF ProcessedLine.stmt.k = "call" THEN ProcessedLine.stmt.args
              ELSE ProcessedLine.stmt.e.args
  IN [k \in 1..Len(args) |-> safeEval(args[k], variables, heap).v]

\* a body run line by line in the scope of the call: a return line ends it
\* with the value of its expression, a line that fails ends it as failed,
\* and a body that runs out of lines yields None; out collects what the
\* lines print
RECURSIVE RunBody(_, _, _, _, _)
RunBody(body, k, scope, out, h) ==
  IF k > Len(body)
  THEN [status |-> "finished", v |-> Null, out |-> out, heap |-> h]
  ELSE IF body[k].stmt.k = "return"
  THEN LET returned == safeEval(body[k].stmt.e, scope, h)
       IN IF returned.ok
          THEN [status |-> "returned", v |-> returned.v, out |-> out, heap |-> h]
          ELSE [status |-> "failed", v |-> Null, out |-> out, heap |-> h]
  ELSE LET result == processLine(body[k], scope, out, h)
       IN IF \E q \in 1..Len(result.steps) : result.steps[q].action = "error"
          THEN [status |-> "failed", v |-> Null, out |-> out, heap |-> h]
          ELSE RunBody(body, k + 1, result.variables, result.output, result.heap)

\* the call of the processed line, run that way
BodyRun == RunBody(CalledFunction.body, 1, CallScope(CalledFunction, CallArguments),
                   <<>>, heap)

\* C14: r = f(args) binds r to the value of the first return line reached
\* when the body lines are run in order in the scope of the call, the
\* assignments before that line included, and to None when the body has no
\* return line.
BodyRunsInOrder ==
  [][(/\ CallsFunction
      /\ ProcessedLine.stmt.k = "assign"
      /\ BodyRun.status # "failed")
     => /\ PushedOne
        /\ NewStep.action \in {"assign", "reassign"}
        /\ Bound(variables', ProcessedLine.stmt.name)
        /\ ResolveValue(variables'[ProcessedLine.stmt.name], heap')
             = ResolveValue(BodyRun.v, BodyRun.heap)]_vars

\* C15: the lines a function body prints before it returns are appended to
\* the output of the caller, each once and in the order of execution.
BodyOutputReachesCaller ==
  [][(CallsFunction /\ BodyRun.status # "failed")
     => output' = output \o BodyRun.out]_vars

\* C16: when a statement of the body or the return expression fails, the
\* calling line records one error step, binds nothing and records no assign
\* or function_call step.
BodyFailureIsCallError ==
  [][(CallsFunction /\ BodyRun.status = "failed")
     => /\ PushedOne
        /\ NewStep.action = "error"
        /\ EnvironmentKept]_vars

\* r = bad(1) has recorded an error step: the body of bad appends to a
\* number before it returns
BadCallRecordedError ==
  /\ pc = "done"
  /\ \E f \in DOMAIN variables :
       /\ IsFunc(variables[f])
       /\ Len(variables[f].body) = 2
       /\ variables[f].body[1].stmt.k = "listop"
  /\ \E k \in 1..Len(steps) :
       /\ steps[k].action = "error"
       /\ lines[steps[k].line + 1].stmt.k = "assign"
  /\ ~Bound(variables, "r")

----------------------------------------------------------------------------
(* Properties of closures and of function definitions *)

\* the transition binds the name f anew
Rebinds(f) ==
  \/ pc \notin {"main", "loop"}
  \/ /\ IsProcessing
     /\ ProcessedLine.stmt.k \in {"assign", "aug", "def", "for"}
     /\ f \in {ProcessedLine.stmt[a] : a \in DOMAIN ProcessedLine.stmt \cap {"name", "var"}}
  \/ pc = "loop" /\ loop.iterVar = f

\* C17: a function keeps the environment of its definition: once a function
\* is bound, no later line changes what its closure holds, so a later call
\* evaluates in the same closure as an earlier one.
ClosureIsFrozen ==
  [][\A f \in DOMAIN variables \cap DOMAIN variables' :
       (IsFunc(variables[f]) /\ ~Rebinds(f))
       => ResolveValue(variables'[f], heap') = ResolveValue(variables[f], heap)]_vars

\* the top-level line being processed is a def header
AtDefHeader ==
  /\ pc = "main" /\ i < Len(lines)
  /\ ~IsSkipped(Current)
  /\ Current.stmt.k = "def"

\* the index of the first line behind the header at index h that is not
\* blank and not indented deeper than the header, or the number of lines
AfterBody(h) ==
  LET ends == {j \in (h + 1)..(Len(lines) - 1) :
                 lines[j + 1].trimmed # "" /\ lines[j + 1].indent <= lines[h + 1].indent}
  IN IF ends = {} THEN Len(lines) ELSE CHOOSE j \in ends : \A o \in ends : j <= o

\* C18: a top-level def header records exactly one function_definition
\* step and binds the function name; the output and every other binding
\* stay as they are, and parseCode goes on at the first line behind the
\* indented body, so no body line is processed at definition time.
DefinitionSkipsBody ==
  [][AtDefHeader
     => /\ PushedOne
        /\ NewStep.action = "function_definition"
        /\ NewStep.line = Current.originalIndex
        /\ output' = output
        /\ Bound(variables', Current.stmt.name)
        /\ IsFunc(variables'[Current.stmt.name])
        /\ \A n \in DOMAIN variables' \ {Current.stmt.name} :
             /\ Bound(variables, n)
             /\ ResolveValue(variables'[n], heap') = ResolveValue(variables[n], heap)
        /\ DOMAIN variables \subseteq DOMAIN variables'
        /\ pc' = "main"
        /\ i' = AfterBody(i)]_vars

\* a function_definition step is followed by the step of the first line
\* behind a body of two lines
DefinitionThenNextLine ==
  \E k \in 1..(Len(steps) - 1) :
    /\ steps[k].action = "function_definition"
    /\ steps[k].bodyLines = 2
    /\ steps[k + 1].line = steps[k].line + 3
    /\ steps[k + 1].output # steps[k].output

----------------------------------------------------------------------------
(* Properties of guards and of the iterable of a loop *)

\* C19: an if or while header records exactly one decision step with the
\* boolean value of its guard and changes neither the environment nor the
\* output; processing goes on at the next line, the first line of the body,
\* whatever the guard is, and the main loop never goes back to a line.
GuardRecordedBodyVisited ==
  [][/\ (IsProcessing /\ ProcessedLine.stmt.k \in {"if", "while"})
        => LET guard == safeEval(ProcessedLine.stmt.e, variables, heap)
           IN /\ PushedOne
              /\ NewStep.action = IF ProcessedLine.stmt.k = "if"
                                  THEN "if_statement" ELSE "while_loop_start"
              /\ NewStep.line = ProcessedLine.originalIndex
              /\ (guard.ok /\ guard.v.t = "bool") => NewStep.conditionResult = guard.v.b
              /\ EnvironmentKept
              /\ output' = output
              /\ pc' = pc
              /\ pc = "main" => i' = i + 1
              /\ pc = "loop" =>
                   \/ loop'.pos = loop.pos + 1 /\ loop'.iterIndex = loop.iterIndex
                   \/ /\ loop.pos = Len(loop.body)
                      /\ loop'.pos = 0 /\ loop'.iterIndex = loop.iterIndex + 1
     /\ (pc = "main" /\ pc' = "main") => i' > i]_vars

\* an if header whose guard is false is followed by the step of the first
\* line of its body
FalseGuardBodyVisited ==
  \E k \in 1..(Len(steps) - 1) :
    /\ steps[k].action = "if_statement"
    /\ steps[k].conditionResult = FALSE
    /\ steps[k + 1].action = "assign"
    /\ steps[k + 1].line = steps[k].line + 1
    /\ lines[steps[k + 1].line + 1].indent > lines[steps[k].line + 1].indent

\* the for_loop_start step of the loop being unrolled
LoopStartStep ==
  steps[CHOOSE k \in 1..Len(steps) :
          /\ steps[k].action = "for_loop_start" /\ steps[k].line = loop.line
          /\ \A o \in (k + 1)..Len(steps) : steps[o].action # "for_loop_start"]

\* the length the iterable had when the header was evaluated: for a name, the
\* length of what the snapshot of the for_loop_start step binds it to
HeaderLength ==
  LET header == lines[loop.line + 1].stmt.e
  IN IF header.e = "name" /\ Bound(LoopStartStep.variables, header.id)
     THEN Len(Elements(LoopStartStep.variables[header.id], heap))
     ELSE Len(Elements(loop.iterable, heap))

\* C20: every for_loop_iteration step of a top-level loop reports as
\* totalIterations the length the iterable had at the header, and the loop
\* ends after that many iterations, whatever the body does to the list.
IterableEvaluatedOnce ==
  [][/\ (pc = "loop" /\ loop.pos = 0 /\ pc' = "loop")
        => NewStep.totalIterations = HeaderLength
     /\ (pc = "loop" /\ pc' = "main")
        => loop.iterIndex = HeaderLength]_vars

----------------------------------------------------------------------------
(* for headers that cannot iterate *)

\* the line being processed is a for header whose iterable is neither a
\* list nor a string
ForOverNonIterable ==
  /\ IsProcessing
  /\ IsFor(ProcessedLine)
  /\ ~IsIterable(IterableValue(ProcessedLine.stmt.e, variables, heap))

\* C21: a for header whose iterable is neither a list nor a string fails
\* only that line, at the top level and inside a loop body: one error step
\* is recorded for it and the build goes on with the lines after it.
NonIterableForFailsOnlyItsLine ==
  [][ForOverNonIterable
     => /\ PushedOne
        /\ NewStep.action = "error"
        /\ NewStep.line = ProcessedLine.originalIndex
        /\ pc' # "threw"]_vars

\* the same for for headers inside a loop body only
NestedNonIterableForFailsOnlyItsLine ==
  [][(ForOverNonIterable /\ pc = "loop")
     => /\ PushedOne
        /\ NewStep.action = "error"
        /\ NewStep.line = ProcessedLine.originalIndex
        /\ pc' = "loop"]_vars

\* a for header inside a loop body has been recorded as an error step and
\* the loop goes on
NestedForRecordedError ==
  /\ code \in NestedForPrograms
  /\ pc = "loop"
  /\ steps # <<>>
  /\ steps[Len(steps)].action = "error"
  /\ steps[Len(steps)].error = "'number' object is not iterable"

----------------------------------------------------------------------------
(* range *)

\* the line being processed is name = range(..) with integer literals
AssignsRange ==
  /\ IsProcessing
  /\ ProcessedLine.stmt.k = "assign"
  /\ ProcessedLine.stmt.e.e = "call"
  /\ ProcessedLine.stmt.e.f = "range"
  /\ Len(ProcessedLine.stmt.e.args) \in 1..3
  /\ \A k \in 1..Len(ProcessedLine.stmt.e.args) : ProcessedLine.stmt.e.args[k].e = "num"
  /\ Len(ProcessedLine.stmt.e.args) = 3 => ProcessedLine.stmt.e.args[3].n # 0

\* the integers of that call
RangeArguments == [k \in 1..Len(ProcessedLine.stmt.e.args) |-> ProcessedLine.stmt.e.args[k].n]

\* the number of terms a, a + s, .. on the side of b that a starts from
Terms(a, b, s) ==
  IF s > 0 THEN (IF b > a THEN (b - a + s - 1) \div s ELSE 0)
  ELSE (IF a > b THEN (a - b - s - 1) \div (0 - s) ELSE 0)

\* the sequence that Python's range gives
Progression(args) ==
  LET a == IF Len(args) = 1 THEN 0 ELSE args[1]
      b == IF Len(args) = 1 THEN args[1] ELSE args[2]
      s == IF Len(args) = 3 THEN args[3] ELSE 1
  IN [k \in 1..Terms(a, b, s) |-> Num(a + (k - 1) * s)]

\* C22: range(n) is 0..n-1, range(a, b) is a..b-1, range(a, b, s) runs from
\* a in steps of s and stops before b, upwards for s > 0 and downwards for
\* s < 0; the stop value is never in the result.
RangeIsProgression ==
  [][AssignsRange
     => /\ PushedOne
        /\ NewStep.action \in {"assign", "reassign"}
        /\ Bound(variables', ProcessedLine.stmt.name)
        /\ IsArray(variables'[ProcessedLine.stmt.name])
        /\ ResolveValue(variables'[ProcessedLine.stmt.name], heap').items
             = Progression(RangeArguments)
        /\ \A k \in 1..Len(Items(variables'[ProcessedLine.stmt.name], heap')) :
             Items(variables'[ProcessedLine.stmt.name], heap')[k]
               # Num(RangeArguments[Min(2, Len(RangeArguments))])]_vars

\* r = range(3, 0, -1) has bound r to [3, 2, 1]
CountedDown ==
  /\ code = << Top(SAssign("r", ECall("range", <<ENum(3), ENum(0), ENum(0 - 1)>>))),
               Top(SPrint(<<EName("r")>>)) >>
  /\ Bound(variables, "r")
  /\ IsArray(variables["r"])
  /\ Items(variables["r"], heap) = <<Num(3), Num(2), Num(1)>>

----------------------------------------------------------------------------
(* print lines *)

\* the line being processed starts with "print("
ProcessesPrintLine == IsProcessing /\ StartsWith(ProcessedLine.trimmed, "print(")

\* C23: every line whose text starts with "print(" records one print step
\* that appends one line to the output, never an assign or reassign step,
\* whatever its arguments are, an "=" inside a string literal included.
PrintLineIsPrintStep ==
  [][ProcessesPrintLine
     => /\ PushedOne
        /\ NewStep.action = "print"
        /\ Len(output') = Len(output) + 1
        /\ DOMAIN variables' = DOMAIN variables]_vars

\* the same for the print lines that hold no "="
PrintLineWithoutEqualsIsPrintStep ==
  [][(ProcessesPrintLine /\ ~Includes(ProcessedLine.trimmed, "="))
     => /\ PushedOne
        /\ NewStep.action = "print"
        /\ Len(output') = Len(output) + 1
        /\ DOMAIN variables' = DOMAIN variables]_vars

\* the output and the variables that the step before position k shows
OutputBefore(k) == IF k = 1 THEN <<>> ELSE steps[k - 1].output
VariablesBefore(k) == IF k = 1 THEN EmptyEnv ELSE steps[k - 1].variables

\* C24: every print step shows the output of the step before it followed by
\* its own outputText, and the variables of the step before it.
PrintStepAppendsOneLine ==
  \A k \in 1..Len(steps) :
    steps[k].action = "print"
      => /\ steps[k].output = Append(OutputBefore(k), steps[k].outputText)
         /\ ResolveEnv(steps[k].variables, heap) = ResolveEnv(VariablesBefore(k), heap)

\* a print step behind an earlier print step, with a list in the variables
SecondPrintRecorded ==
  \E k \in 2..Len(steps) :
    /\ steps[k].action = "print"
    /\ Len(steps[k].output) >= 2
    /\ \E n \in DOMAIN steps[k].variables : IsArray(steps[k].variables[n])

----------------------------------------------------------------------------
(* augmented assignment *)

\* the line being processed is name op= expr with name bound to a number
\* and expr a number
AugmentsNumber ==
  /\ IsProcessing
  /\ ProcessedLine.stmt.k = "aug"
  /\ Bound(variables, ProcessedLine.stmt.name)
  /\ variables[ProcessedLine.stmt.name].t = "num"
  /\ safeEval(ProcessedLine.stmt.e, variables, heap).ok
  /\ safeEval(ProcessedLine.stmt.e, variables, heap).v.t = "num"

\* a % b of the interpreted language: the sign follows the divisor
Modulo(a, b) == IF b > 0 THEN a % b ELSE 0 - ((0 - a) % (0 - b))

\* what a division by zero yields: no value
ZeroDivision == [t |-> "ZeroDivisionError"]

\* old op right on integers
Arithmetic(op, a, b) ==
  CASE op = "+" -> Num(a + b)
    [] op = "-" -> Num(a - b)
    [] op = "*" -> Num(a * b)
    [] op = "/" -> IF b = 0 THEN ZeroDivision
                   ELSE IF Modulo(a, b) = 0
                   THEN Num(IF b > 0 THEN a \div b ELSE (0 - a) \div (0 - b))
                   ELSE Float
    [] op = "%" -> IF b = 0 THEN ZeroDivision ELSE Num(Modulo(a, b))

\* name is bound to old op right and one augmented_assign step shows the
\* three values
AugmentedStepShows(op, name, old, right) ==
  /\ PushedOne
  /\ NewStep.action = "augmented_assign"
  /\ NewStep.oldValue = Num(old)
  /\ NewStep.rightValue = Num(right)
  /\ NewStep.value = Arithmetic(op, old, right)
  /\ variables'[name] = Arithmetic(op, old, right)
  /\ NewStep.variables[name] = Arithmetic(op, old, right)

RECURSIVE SumOf(_)
\* the sum of a list of numbers
SumOf(items) == IF items = <<>> THEN 0 ELSE Head(items).n + SumOf(Tail(items))

\* a loop over a list of numbers whose body is total += loop variable, with
\* total bound to 0 at the header, is being left
SummingLoopEnds ==
  /\ pc = "loop" /\ pc' = "main"
  /\ Len(loop.body) = 1
  /\ loop.body[1].stmt = SAug("total", "+", EName(loop.iterVar))
  /\ IsArray(loop.iterable)
  /\ \A k \in 1..Len(Items(loop.iterable, heap)) : Items(loop.iterable, heap)[k].t = "num"
  /\ Bound(LoopStartStep.variables, "total")
  /\ LoopStartStep.variables["total"] = Num(0)

\* C25: name op= expr on a name bound to a number, with expr a number, binds
\* name to old op right and records one augmented_assign step with oldValue,
\* rightValue and value; so the for_loop_end step of a loop that adds the
\* elements of a numeric list to total, 0 before the loop, shows their sum.
AugmentedAssignmentApplies ==
  [][/\ AugmentsNumber
        => AugmentedStepShows(ProcessedLine.stmt.op, ProcessedLine.stmt.name,
                              variables[ProcessedLine.stmt.name].n,
                              safeEval(ProcessedLine.stmt.e, variables, heap).v.n)
     /\ SummingLoopEnds
        => /\ NewStep.action = "for_loop_end"
           /\ NewStep.variables["total"] = Num(SumOf(Items(loop.iterable, heap)))]_vars

\* the same, for operands other than a zero divisor and a negative dividend
\* of %
AugmentedAssignmentAppliesInsideDomain ==
  [][/\ (/\ AugmentsNumber
         /\ ProcessedLine.stmt.op \in {"/", "%"}
              => safeEval(ProcessedLine.stmt.e, variables, heap).v.n # 0
         /\ ProcessedLine.stmt.op = "%" => variables[ProcessedLine.stmt.name].n >= 0)
        => AugmentedStepShows(ProcessedLine.stmt.op, ProcessedLine.stmt.name,
                              variables[ProcessedLine.stmt.name].n,
                              safeEval(ProcessedLine.stmt.e, variables, heap).v.n)
     /\ SummingLoopEnds
        => /\ NewStep.action = "for_loop_end"
           /\ NewStep.variables["total"] = Num(SumOf(Items(loop.iterable, heap)))]_vars

\* the loop over [1, 2, 3] has ended with total 6
SummedToSix ==
  /\ steps # <<>>
  /\ steps[Len(steps)].action = "for_loop_end"
  /\ Bound(steps[Len(steps)].variables, "total")
  /\ steps[Len(steps)].variables["total"] = Num(6)

----------------------------------------------------------------------------
(* list methods that cannot be applied *)

\* the line being processed is name.append/extend/remove/pop/insert(..)
ProcessesListMethod ==
  /\ IsProcessing
  /\ ProcessedLine.stmt.k = "listop"
  /\ ProcessedLine.stmt.op \in {"append", "extend", "remove", "pop", "insert"}

\* the target of that line is not bound to a list
TargetIsNoList ==
  ~(Bound(variables, ProcessedLine.stmt.name) /\ IsArray(variables[ProcessedLine.stmt.name]))

\* the single argument of that line has a value
ArgumentEvaluates ==
  /\ Len(ProcessedLine.stmt.args) = 1
  /\ safeEval(ProcessedLine.stmt.args[1], variables, heap).ok

ArgumentValue == safeEval(ProcessedLine.stmt.args[1], variables, heap).v

\* the line removes a value the list does not hold, or extends the list by
\* a value that is not a list
CannotApply ==
  /\ ~TargetIsNoList
  /\ ArgumentEvaluates
  /\ \/ /\ ProcessedLine.stmt.op = "remove"
        /\ \A k \in 1..Len(Items(variables[ProcessedLine.stmt.name], heap)) :
             Items(variables[ProcessedLine.stmt.name], heap)[k] # ArgumentValue
     \/ /\ ProcessedLine.stmt.op = "extend"
        /\ ~IsArray(ArgumentValue)

\* C26: a list method on a name that is unbound or not bound to a list, a
\* remove of a value the list does not hold and an extend with a value that
\* is not a list each record one error step and leave the environment, the
\* list included, as it was.
ListMethodFailureKeepsEnvironment ==
  [][(ProcessesListMethod /\ (TargetIsNoList \/ CannotApply))
     => /\ PushedOne
        /\ NewStep.action = "error"
        /\ NewStep.line = ProcessedLine.originalIndex
        /\ EnvironmentKept
        /\ output' = output]_vars

\* nums.remove(5) on [1, 2] has recorded an error step and nums is still
\* [1, 2]
RemoveOfAbsentValueRecorded ==
  /\ \E k \in 1..Len(lines) : lines[k].stmt = SListOp("nums", "remove", <<ENum(5)>>)
  /\ steps # <<>>
  /\ steps[Len(steps)].action = "error"
  /\ steps[Len(steps)].error = "Value 5 not found in list"
  /\ Items(variables["nums"], heap) = <<Num(1), Num(2)>>

\* x.append(0, 1) on a number has recorded an error step
MethodOnNumberRecorded ==
  /\ steps # <<>>
  /\ steps[Len(steps)].action = "error"
  /\ steps[Len(steps)].error = "'number' object has no attribute 'append'"

----------------------------------------------------------------------------
(* pop and get of a dict, in the second declaration of the component *)

\* the main loop stands at a line name.pop(..) or name.get(..) whose name is
\* bound to a dict and whose key has a value
ProcessesDictMethod ==
  /\ pc = "main" /\ i < Len(lines)
  /\ Current.stmt.k = "listop"
  /\ Current.stmt.op \in {"pop", "get"}
  /\ IsDict(Lookup(variables, Current.stmt.name))
  /\ Current.stmt.args # <<>>
  /\ SecondSafeEval(Current.stmt.args[1], variables, heap).ok

DictKey == ToJsString(SecondSafeEval(Current.stmt.args[1], variables, heap).v, heap)
DictBefore == variables[Current.stmt.name].entries
DictAfter == variables'[Current.stmt.name].entries
KeyHeld == \E k \in 1..Len(DictBefore) : DictBefore[k].k = DictKey
ValueHeld == DictBefore[CHOOSE k \in 1..Len(DictBefore) : DictBefore[k].k = DictKey].v
HasDefault == Len(Current.stmt.args) >= 2
DefaultValue == SecondSafeEval(Current.stmt.args[2], variables, heap).v

\* the step of a get: the value held, the default, or None, and the dict as
\* it was
GetStepShows ==
  /\ PushedOne
  /\ NewStep.action = "dict_operation"
  /\ NewStep.resultValue = (IF KeyHeld THEN ValueHeld
                            ELSE IF HasDefault THEN DefaultValue ELSE Null)
  /\ DictAfter = DictBefore

\* the step of a pop: the key removed and its value reported; the default
\* and the dict as it was; or an error step for the KeyError
PopStepShows ==
  /\ PushedOne
  /\ IF KeyHeld
     THEN /\ NewStep.action = "dict_operation"
          /\ NewStep.resultValue = ValueHeld
          /\ DictAfter = SelectSeq(DictBefore, LAMBDA entry : entry.k # DictKey)
     ELSE IF HasDefault
     THEN /\ NewStep.action = "dict_operation"
          /\ NewStep.resultValue = DefaultValue
          /\ DictAfter = DictBefore
     ELSE /\ NewStep.action = "error"
          /\ StartsWith(NewStep.error, "KeyError")
          /\ DictAfter = DictBefore

\* C27: on a name bound to a dict, pop(k) records a dict_operation step that
\* removes k and reports its value when k is held, returns the default and
\* leaves the dict alone when k is not held, and records an error step for
\* the KeyError when there is no default; get(k) never fails and returns the
\* value held, the default, or None.
DictPopAndGet ==
  [][ProcessesDictMethod
     => IF Current.stmt.op = "pop" THEN PopStepShows ELSE GetStepShows]_vars

\* the half of it about get
DictGet ==
  [][(ProcessesDictMethod /\ Current.stmt.op = "get") => GetStepShows]_vars

\* what pop does instead: the branch of the list methods takes the line and
\* records that the object has no such method
DictPopIsTakenForListPop ==
  [][(ProcessesDictMethod /\ Current.stmt.op = "pop")
     => /\ PushedOne
        /\ NewStep.action = "error"
        /\ NewStep.error = "'object' object has no attribute 'pop'"
        /\ DictAfter = DictBefore]_vars

\* d.get("z", 0) on a dict without "z" has recorded the default
GetDefaultRecorded ==
  /\ steps # <<>>
  /\ steps[Len(steps)].action = "dict_operation"
  /\ steps[Len(steps)].operation = "get"
  /\ steps[Len(steps)].resultValue = Num(0)

----------------------------------------------------------------------------
(* The values a step records *)

\* what a reader sees in the value, oldValue and iterable of a step
RecordedValues(st, h) ==
  LET shown == ResolveStep(st, h)
  IN [f \in DOMAIN st \cap {"value", "oldValue", "iterable"} |-> shown[f]]

\* the steps whose recorded values the statement is about
RecordsList(st) ==
  st.action \in {"assign", "reassign", "list_operation", "for_loop_start"}

\* parseCode goes on with the trace it has
TraceGrows ==
  /\ Len(steps') >= Len(steps)
  /\ \A k \in 1..Len(steps) : steps'[k] = steps[k]

\* C28: the value of an assign or reassign step, the value and oldValue of a
\* list_operation step and the iterable of a for_loop_start step show the
\* same after every later statement as when the step was recorded.
RecordedValuesAreSnapshots ==
  [][TraceGrows
     => \A k \in 1..Len(steps) :
          RecordsList(steps[k])
            => RecordedValues(steps'[k], heap') = RecordedValues(steps[k], heap)]_vars

\* the part of it that the code keeps: the oldValue of a list_operation
\* step is a copy of its own
OldValueIsSnapshot ==
  [][TraceGrows
     => \A k \in 1..Len(steps) :
          steps[k].action = "list_operation"
            => ResolveValue(steps'[k].oldValue, heap') = ResolveValue(steps[k].oldValue, heap)]_vars

\* after nums = [1, 2] and nums.append(3) the assign step shows [1, 2, 3]
AssignStepShowsLaterAppend ==
  /\ Len(steps) >= 2
  /\ steps[1].action = "assign" /\ steps[1].expression = "[1, 2]"
  /\ steps[2].action = "list_operation" /\ steps[2].operation = "append"
  /\ ResolveValue(steps[1].value, heap).items = <<Num(1), Num(2), Num(3)>>

----------------------------------------------------------------------------
(* len *)

\* the line being processed is name = len(x) with x bound
AssignsLenOfName ==
  /\ IsProcessing
  /\ ProcessedLine.stmt.k = "assign"
  /\ ProcessedLine.stmt.e.e = "call"
  /\ ProcessedLine.stmt.e.f = "len"
  /\ Len(ProcessedLine.stmt.e.args) = 1
  /\ ProcessedLine.stmt.e.args[1].e = "name"
  /\ Bound(variables, ProcessedLine.stmt.e.args[1].id)

\* the value len is applied to
Measured == variables[ProcessedLine.stmt.e.args[1].id]

\* a list, a string or a dict, and the number of its elements
HasElements(v) == IsArray(v) \/ IsStr(v) \/ IsDict(v)
ElementCount(v, h) ==
  IF IsArray(v) THEN Len(Items(v, h))
  ELSE IF IsStr(v) THEN Len(v.s)
  ELSE Len(v.entries)

\* the step binds the target to the number of elements
LenStepCounts ==
  /\ PushedOne
  /\ NewStep.action \in {"assign", "reassign"}
  /\ NewStep.value = Num(ElementCount(Measured, heap))
  /\ variables'[ProcessedLine.stmt.name] = Num(ElementCount(Measured, heap))

\* C29: len(x) is the number of elements of a list, a string or a dict and
\* fails for every other value, numbers, booleans, None and functions
\* included; n = len(x) with such an x records an error step and does not
\* bind n.
LenCountsOrFails ==
  [][AssignsLenOfName
     => IF HasElements(Measured) THEN LenStepCounts
        ELSE /\ ~__len(Measured, heap).ok
             /\ PushedOne
             /\ NewStep.action = "error"
             /\ variables' = variables]_vars

\* the part about lists, strings and dicts
LenCounts ==
  [][(AssignsLenOfName /\ HasElements(Measured)) => LenStepCounts]_vars

\* what happens for the other values: len of a number, a boolean or None
\* fails and the target is bound to the text of the right-hand side; len of
\* a function object is the number of its properties
LenOfOtherValues ==
  [][(AssignsLenOfName /\ ~HasElements(Measured))
     => /\ PushedOne
        /\ NewStep.action \in {"assign", "reassign"}
        /\ IF IsFunc(Measured)
           THEN /\ __len(Measured, heap) = Ok(Num(FuncKeys))
                /\ variables'[ProcessedLine.stmt.name] = Num(FuncKeys)
           ELSE /\ ~__len(Measured, heap).ok
                /\ variables'[ProcessedLine.stmt.name]
                     = Str(Render(ProcessedLine.stmt.e))]_vars

\* n = len(x) with x bound to the dict of two keys has bound n to 2
LenOfDictBound ==
  /\ Bound(variables, "x") /\ IsDict(variables["x"])
  /\ Bound(variables, "n") /\ variables["n"] = Num(2)

----------------------------------------------------------------------------
(* The kinds of step *)

ActionKinds ==
  {"assign", "reassign", "augmented_assign", "list_operation", "dict_operation",
   "print", "function_definition", "function_call", "for_loop_start",
   "for_loop_iteration", "for_loop_end", "if_statement", "while_loop_start",
   "execute", "error"}

\* C30: every step of every trace has an action among the fifteen kinds
\* assign, reassign, augmented_assign, list_operation, dict_operation, print,
\* function_definition, function_call, for_loop_start, for_loop_iteration,
\* for_loop_end, if_statement, while_loop_start, execute and error.
EveryActionIsKnown ==
  \A k \in 1..Len(steps) : steps[k].action \in ActionKinds

\* what the second declaration emits besides: the two steps around the block
\* of a top-level header that is not a for
EveryActionIsKnownOrControlStructure ==
  \A k \in 1..Len(steps) :
    steps[k].action \in ActionKinds \cup {"control_structure_start", "control_structure_end"}

\* a top-level if header has been recorded as the start of a control
\* structure
ControlStructureRecorded ==
  \E k \in 1..Len(steps) :
    /\ steps[k].action = "control_structure_start"
    /\ StartsWith(steps[k].code, "if ")

----------------------------------------------------------------------------
(* Breakpoints *)

\* the lines that carry a breakpoint
BreakpointSet(state) == {state.breakpoints[k] : k \in 1..Len(state.breakpoints)}

\* the state with its breakpoints left out
WithoutBreakpoints(state) == [f \in DOMAIN state \ {"breakpoints"} |-> state[f]]

\* C31: a change of the breakpoints changes nothing else, neither of the
\* state shown nor of parseCode, and it adds or removes exactly one line, so
\* that toggling a line twice restores the set; resetVisualization keeps the
\* breakpoints; and the trace built for a text is the same whatever the
\* breakpoints are.
BreakpointsArePresentation ==
  [][/\ (BreakpointSet(executionState') # BreakpointSet(executionState)
           => /\ WithoutBreakpoints(executionState') = WithoutBreakpoints(executionState)
              /\ UNCHANGED <<code, pc, lines, i, steps, variables, output, loop, heap,
                             builds, previous, error, executionInterval, timers, caller>>
              /\ \E l \in 0..MaxBreakLine :
                   BreakpointSet(executionState')
                     = (BreakpointSet(executionState) \ {l})
                       \cup ({l} \ BreakpointSet(executionState)))
     /\ (pc \notin {"done", "threw"}
           => executionState'.breakpoints = executionState.breakpoints)
     /\ (pc' = "done" /\ builds' >= 2
           => ResolveTrace(steps', heap') = previous')]_vars

\* a text has been built a second time with a breakpoint set that was not
\* there at the first build of the component
RebuiltWithBreakpoint ==
  /\ pc = "done" /\ builds >= 2
  /\ steps # <<>>
  /\ executionState.breakpoints # <<>>
  /\ executionState.executionSteps = steps

----------------------------------------------------------------------------
(* Termination of parseCode *)

\* parseCode is at work: it has not returned or thrown, and it has a next
\* step to take
Busy == pc \in {"idle", "main", "loop"}

\* parseCode is one synchronous call of the host: while it is busy it keeps
\* taking steps
KeepsRunning == []<>(~Busy) \/ []<><<Next>>_vars

\* C32: the build of the trace ends for every text whose loop bodies do not
\* grow the list they iterate over: guards are evaluated once, a for loop
\* takes as many turns as its iterable is long, and every call of range with
\* one, two or three integers, whatever their sign and a step of 0 included,
\* returns.  A build ends when it is never at a standstill before it has
\* returned or thrown: in every state it is still at work or has ended.
ParseCodeEnds == Busy \/ pc \in {"done", "threw"}

\* a build that keeps taking its steps ends or comes to stand at a line
\* that is never left: no build goes on for ever
ParseCodeEndsOrRangeHangs == KeepsRunning => <>(pc \in {"done", "threw", "hung"})

\* a line is never left only for that reason
OnlyZeroStepHangs ==
  pc = "hung" =>
    \E k \in 1..Len(lines) :
      \E a \in RangeArgs, b \in RangeArgs :
        /\ a > b
        /\ \/ lines[k].stmt.e = ECall("range", <<ENum(a), ENum(b), ENum(0)>>)
           \/ /\ lines[k].stmt.e = ECall("range", <<EName("n"), ENum(b), ENum(0)>>)
              /\ variables["n"] = Num(a)

\* range(a, b, 0) with a <= b has returned the empty list
ZeroStepReturnedEmpty ==
  /\ pc = "done"
  /\ lines[1].stmt.k = "assign" /\ lines[1].stmt.e.e = "call"
  /\ Len(lines[1].stmt.e.args) = 3 /\ lines[1].stmt.e.args[3] = ENum(0)
  /\ Items(variables["r"], heap) = <<>>

----------------------------------------------------------------------------
(* for_loop_start and for_loop_end *)

\* the step at position m of the trace closes the loop opened at position k
ClosesLoop(trace, k, m) ==
  /\ trace[m].action = "for_loop_end"
  /\ trace[m].line = trace[k].line

\* C33: loop steps are balanced: every for_loop_start step of a trace is
\* later followed by a for_loop_end step with the same line number, for a
\* for header in the body of another loop as well as for a top-level one.
LoopStepsBalanced ==
  pc = "done" =>
    \A k \in 1..Len(steps) :
      steps[k].action = "for_loop_start" =>
        \E m \in (k + 1)..Len(steps) : ClosesLoop(steps, k, m)

\* the for_loop_start steps of the main loop, which record the body of the
\* loop, are closed, and between the two steps lie the iteration steps of
\* the header and the steps of the lines of the body
TopLevelLoopStepsBalanced ==
  pc = "done" =>
    \A k \in 1..Len(steps) :
      (steps[k].action = "for_loop_start" /\ "loopBody" \in DOMAIN steps[k]) =>
        \E m \in (k + 1)..Len(steps) :
          /\ ClosesLoop(steps, k, m)
          /\ \A q \in (k + 1)..(m - 1) :
               \/ /\ steps[q].action = "for_loop_iteration"
                  /\ steps[q].line = steps[k].line
               \/ \E b \in 1..Len(steps[k].loopBody) :
                    steps[q].line = steps[k].loopBody[b]

\* a trace with a closed top-level loop that ran its body
TopLevelLoopClosed ==
  /\ pc = "done"
  /\ \E k \in 1..Len(steps) : \E m \in (k + 2)..Len(steps) :
       /\ steps[k].action = "for_loop_start"
       /\ ClosesLoop(steps, k, m)

----------------------------------------------------------------------------
(* The output along a trace *)

\* shorter is the beginning of longer
IsPrefixOf(shorter, longer) ==
  /\ Len(shorter) <= Len(longer)
  /\ SubSeq(longer, 1, Len(shorter)) = shorter

\* the step belongs to a line that called a function the text defined: a
\* standalone call or an assignment whose right-hand side is a call
OfLineThatCalled(st) ==
  LET stmt == lines[st.line + 1].stmt
  IN \/ st.action = "function_call"
     \/ /\ stmt.k = "assign" /\ stmt.e.e = "call"
        /\ st.action \in {"assign", "reassign"}
        /\ stmt.e.f \in DOMAIN st.variables
        /\ IsFunc(st.variables[stmt.e.f])

\* C34: output only grows along a trace: of two consecutive steps the
\* output of the earlier is a prefix of the output of the later, and the two
\* differ only when the later step is a print step or a step of a line that
\* called a function.
OutputOnlyGrows ==
  \A k \in 1..(Len(steps) - 1) :
    /\ IsPrefixOf(steps[k].output, steps[k + 1].output)
    /\ steps[k].output # steps[k + 1].output =>
         steps[k + 1].action = "print" \/ OfLineThatCalled(steps[k + 1])

\* a trace whose output grew at a print step and was carried on by a later
\* step that is no print step
OutputGrewAtPrint ==
  /\ pc = "done"
  /\ \E k \in 2..Len(steps) : \E m \in (k + 1)..Len(steps) :
       /\ steps[k].action = "print"
       /\ steps[k].output # steps[k - 1].output
       /\ steps[m].action # "print"
       /\ steps[m].output = steps[m - 1].output
       /\ steps[m].output # <<>>

----------------------------------------------------------------------------
(* Standalone calls *)

\* the processed line is a call of a bound function that stands alone
StandaloneCall == CallsFunction /\ ProcessedLine.stmt.k = "call"

\* the transition pushed one function_call step whose variables are the
\* environment of the caller before the call, and left that environment as
\* it was
OneCallStepNoLeak ==
  /\ PushedOne
  /\ NewStep.action = "function_call"
  /\ NewStep.line = ProcessedLine.originalIndex
  /\ ResolveEnv(NewStep.variables, heap') = ResolveEnv(variables, heap)
  /\ EnvironmentKept

\* C35: a standalone call f(args) of a defined function contributes exactly
\* one step (function_call) and none for its body lines, and does not leak
\* its scope: the variables of the step are the environment of the caller
\* just before the call, and parameters and names assigned in the body are
\* not bound in the environment of the caller.
StandaloneCallIsOneStep ==
  [][(StandaloneCall /\ BodyRun.status # "failed") => OneCallStepNoLeak]_vars

\* the same for the calls whose body is empty or begins with its return line
StandaloneCallOfReturnIsOneStep ==
  [][(/\ StandaloneCall
      /\ BodyRun.status # "failed"
      /\ \/ CalledFunction.body = <<>>
         \/ CalledFunction.body[1].stmt.k = "return")
     => OneCallStepNoLeak]_vars

\* a function_call step has been recorded, and no parameter of the function
\* called is bound in the environment
CallStepRecorded ==
  \E k \in 1..Len(steps) :
    /\ steps[k].action = "function_call"
    /\ Bound(variables, steps[k].functionName)
    /\ \A p \in 1..Len(variables[steps[k].functionName].params) :
         ~Bound(variables, variables[steps[k].functionName].params[p])

----------------------------------------------------------------------------
(* Literals that span several lines *)

\* the steps of the trace that belong to the line of index n
StepsOfLine(n) == SelectSeq(steps, LAMBDA st : st.line = n)

\* C36: an assignment whose dict or list literal spans several source lines
\* produces exactly one step, the assign/reassign step on the line that
\* opens the literal; the continuation lines and the line holding the
\* closing bracket produce no steps of their own.
MultiLineLiteralIsOneStep ==
  pc = "done" =>
    \A s \in 0..(Len(lines) - 1) :
      (lines[s + 1].indent = 0 /\ OpensStructure(lines[s + 1])) =>
        /\ Len(StepsOfLine(s)) = 1
        /\ StepsOfLine(s)[1].action \in {"assign", "reassign"}
        /\ \A n \in (s + 1)..parseMultiLineStructure(lines, s).endIndex :
             StepsOfLine(n) = <<>>

\* the line that opens the literal has its one assign/reassign step, whose
\* value is the literal parsed from the lines that follow when these form
\* one, and every other line of the literal that is not blank has one
\* execute step
MultiLineLiteralAndExecuteSteps ==
  pc = "done" =>
    \A s \in 0..(Len(lines) - 1) :
      (lines[s + 1].indent = 0 /\ OpensStructure(lines[s + 1])) =>
        LET found == parseMultiLineStructure(lines, s)
        IN /\ Len(StepsOfLine(s)) = 1
           /\ StepsOfLine(s)[1].action \in {"assign", "reassign"}
           /\ StructureParses(lines, lines[s + 1], found) =>
                ResolveValue(StepsOfLine(s)[1].value, heap)
                  = ResolveValue(StructureValue(lines, lines[s + 1], found), heap)
           /\ \A n \in (s + 1)..Min(found.endIndex, Len(lines) - 1) :
                /\ Len(StepsOfLine(n)) = 1
                /\ StepsOfLine(n)[1].action = "execute"

\* a trace with the assign step of a dict read from three lines
MultiLineDictAssigned ==
  /\ pc = "done"
  /\ \E k \in 1..Len(steps) :
       /\ steps[k].action = "assign"
       /\ steps[k].expression = "{"
       /\ IsDict(steps[k].value)
       /\ Len(steps[k].value.entries) = 2

----------------------------------------------------------------------------
(* The playback index *)

\* indices just outside the trace of a state, on either side
OutsideTrace(state) ==
  {0 - 2, 0 - 1, Len(state.executionSteps), Len(state.executionSteps) + 1}

\* C37: the playback index never leaves the trace: in every state reached
\* by resetVisualization, nextStep, prevStep, jumpToStep(k), togglePlay and
\* timer ticks, 0 <= step <= max(0, executionSteps.length - 1); jumpToStep
\* with k < 0 or k >= executionSteps.length and prevStep at step 0 leave the
\* playback state as it is.
PlaybackIndexInsideTrace ==
  /\ 0 <= executionState.step
  /\ executionState.step <= (IF LastIndex(executionState) > 0
                             THEN LastIndex(executionState) ELSE 0)
  /\ \A stepIndex \in OutsideTrace(executionState) :
       JumpToStepOf(executionState, stepIndex) = executionState
  /\ executionState.step = 0 => PrevStepOf(executionState) = executionState

\* playback stands at the last step of a trace of several steps, shown by a
\* jump or reached step by step, and an index behind the trace has no step
ShowsLastStep ==
  /\ Quiet
  /\ LastIndex(executionState) > 0
  /\ executionState.step = LastIndex(executionState)
  /\ executionState.currentLine
       = executionState.executionSteps[Len(executionState.executionSteps)].line
  /\ ~executionState.isRunning

----------------------------------------------------------------------------
(* The running flag and the interval timer *)

\* a timer is held in executionInterval exactly while isRunning is true, and
\* the timer held is the only live one
FlagAndTimerAgree ==
  /\ executionState.isRunning <=> executionInterval # NoTimer
  /\ timers = IF executionInterval # NoTimer THEN {executionInterval} ELSE {}

\* C39: the running flag and the timer agree, and timers never pile up: in
\* every state reached by interleavings of togglePlay, handleSpeedChange,
\* resetVisualization (succeeding or failing) and timer ticks, isRunning is
\* true exactly when an interval timer is installed in executionInterval, at
\* most one interval timer is live, and a new timer is only installed after
\* the previous one has been cleared.
OneTimerWhileRunning ==
  /\ []FlagAndTimerAgree
  /\ [][(executionInterval' # executionInterval /\ executionInterval' # NoTimer)
        => /\ executionInterval \notin timers'
           /\ Cardinality(timers') = 1]_vars

\* playback runs on a timer installed by a change of speed, after a reset
\* that failed while it was running
RunsOnSecondTimer ==
  /\ Quiet
  /\ executionState.isRunning
  /\ executionInterval = 2
  /\ error # NoError

----------------------------------------------------------------------------
(* Auto-play *)

\* playback has stopped at the last step of the trace and no timer is left
StoppedAtLastStep ==
  /\ ~executionState.isRunning
  /\ executionInterval = NoTimer
  /\ timers = {}
  /\ executionState.step = (IF LastIndex(executionState) > 0
                            THEN LastIndex(executionState) ELSE 0)

\* what a tick does to running playback: before the last step the next step
\* is shown and the timer stays; at the last step the timer is cleared,
\* isRunning becomes false and the step stays
TickOfAutoPlay ==
  IF executionState.step < LastIndex(executionState)
  THEN /\ executionState'.step = executionState.step + 1
       /\ executionState'.isRunning
       /\ UNCHANGED <<executionInterval, timers>>
  ELSE /\ executionState'.step = executionState.step
       /\ StoppedAtLastStep'

\* C38: auto-play always stops: once togglePlay has started playback and
\* the user issues no further input, the ticks advance step by one per tick
\* until the last step, the next tick clears the interval timer and sets
\* isRunning to false, and from then on no timer is left to change step
\* (under fair timer ticks).
AutoPlayStops ==
  /\ [][executionState.isRunning => TickOfAutoPlay]_vars
  /\ executionState.isRunning ~> StoppedAtLastStep
  /\ [](~executionState.isRunning => ~ENABLED TimerTick)

\* playback is running at the last step of a trace of several steps: the
\* ticks have brought it there, and the next tick stops it
PlayingAtLastStep ==
  /\ executionState.isRunning
  /\ timers # {}
  /\ LastIndex(executionState) > 1
  /\ executionState.step = LastIndex(executionState)

====
